---- MODULE Spec2Model ----
(***************************************************************************)
(* Corporate-action adjusted price history of the NSE Bhavcopy pipeline:   *)
(* the script-wise updater (2_Script_Wise_Updater.py), the corporate       *)
(* action extractor and factor engine (3.2, 3.3, 3.4) and the backward     *)
(* adjustment applier (4_Update_Adjustment_Prices.py).                     *)
(*                                                                         *)
(* Representation.  A date is a day number (1..MaxDate); 0 stands for the  *)
(* default start 2000-01-01 and SentinelDate for 2099-12-31.  A price is   *)
(* an integer number of paise (two decimals).  A float that is not a price *)
(* is an exact fraction <<numerator, denominator>>.  A CSV file is a       *)
(* record [ex, rows, mt]: whether it exists, its data rows in file order   *)
(* and its modification time.  A text is a sequence of one-character       *)
(* strings; a disclosure subject is the sequence of its words, numbers and *)
(* ratios.                                                                 *)
(***************************************************************************)
EXTENDS Integers, Sequences, FiniteSets, TLC

\* ------------------------------------------------------------------ bounds
MaxDate == 3
MaxClock == 2
MaxDisclosures == 3

\* ------------------------------------------------------- program constants
DefaultStart == 0
SentinelDate == 99
HeaderBytes == 141
SmallFileBytes == 100

OldSym == "OLDCO"
NewSym == "NEWCO"
MasterList == {OldSym, NewSym}

Dates == 1..MaxDate

RawColumns == {"date", "open_price", "high_price", "low_price", "close_price",
               "last_price", "prev_close", "avg_price", "ttl_trd_qnty",
               "turnover_lacs", "no_of_trades", "deliv_qty", "deliv_per"}
DisclosureColumns == {"subject", "exDate", "faceVal"}

\* ------------------------------------------------------------ small helpers
Min(a, b) == IF a <= b THEN a ELSE b
Max(a, b) == IF a >= b THEN a ELSE b

RECURSIVE SetMin(_)
SetMin(S) == LET x == CHOOSE y \in S : TRUE
             IN IF Cardinality(S) = 1 THEN x ELSE Min(x, SetMin(S \ {x}))

RECURSIVE SetMax(_)
SetMax(S) == LET x == CHOOSE y \in S : TRUE
             IN IF Cardinality(S) = 1 THEN x ELSE Max(x, SetMax(S \ {x}))

Range(s) == {s[i] : i \in 1..Len(s)}

\* A file: its records, its modification time, and what is wrong with its
\* text: "none" (the header line, then the records), "bad_tail" (the
\* same, then a last line whose first field is no date), "empty" (0 bytes)
\* or "no_header" (records only).
AbsentFile == [ex |-> FALSE, rows |-> <<>>, mt |-> 0, damage |-> "none"]
WrittenFile(rows, t) == [ex |-> TRUE, rows |-> rows, mt |-> t, damage |-> "none"]

DatesOf(rows) == {rows[i].date : i \in 1..Len(rows)}
NoDuplicateDates(rows) ==
    \A i, j \in 1..Len(rows) : rows[i].date = rows[j].date => i = j
StrictlyAscending(rows) ==
    \A i \in 1..Len(rows) - 1 : rows[i].date < rows[i + 1].date

\* -------------------------------------------------------------- daily files
\* The market-wide settlement files the downloader can store.  The
\* downloader keeps a file only if the date in its first row is the date in
\* its name, so a row carries the date of its file.
DailyRow(sym, series, open, close, qty) ==
    [symbol |-> sym, series |-> series, open_price |-> open,
     close_price |-> close, ttl_trd_qnty |-> qty]

DailyFileCatalogue ==
    [id \in 1..5 |->
       CASE id = 1 -> [date |-> 1, columns_ok |-> TRUE, has_series |-> TRUE,
                       rows |-> << DailyRow(OldSym, "EQ", 9905, 10000, 100),
                                   DailyRow(NewSym, "EQ", 19905, 20000, 30),
                                   DailyRow("OTHER", "EQ", 700, 710, 5) >>]
         [] id = 2 -> [date |-> 2, columns_ok |-> TRUE, has_series |-> TRUE,
                       rows |-> << DailyRow(OldSym, "BE", 4800, 4900, 9),
                                   DailyRow(OldSym, "EQ", 5100, 5000, 200),
                                   DailyRow(OldSym, "EQ", 5150, 5100, 7) >>]
         [] id = 3 -> [date |-> 2, columns_ok |-> TRUE, has_series |-> FALSE,
                       rows |-> << DailyRow(NewSym, "EQ", 10100, 10005, 60),
                                   DailyRow(OldSym, "EQ", 5060, 5050, 210) >>]
         [] id = 4 -> [date |-> 3, columns_ok |-> TRUE, has_series |-> TRUE,
                       rows |-> << DailyRow(NewSym, "EQ", 5000, 5200, 50),
                                   DailyRow(NewSym, "EQ", 5001, 5201, 51) >>]
         [] id = 5 -> [date |-> 3, columns_ok |-> FALSE, has_series |-> TRUE,
                       rows |-> << DailyRow(OldSym, "EQ", 4000, 4100, 11) >>] ]

DailyFileIds == DOMAIN DailyFileCatalogue
\* one well-formed file per date
CoreFileIds == {1, 3, 4}

VARIABLES
    source,     \* ids of the daily files stored in NSE_Bhavcopy_Master_Data
    raw,        \* NSE_Bhavcopy_Scriptwsie_Data: symbol -> ledger file
    adj,        \* NSE_Bhavcopy_Adjusted_Data: symbol -> adjusted ledger file
    cadata,     \* NSE_Corporate_Actions_Data: symbol -> disclosure file
    master,     \* Corporate_Actions_Master.csv
    calc,       \* Calculated_Adjustments.csv
    mapping,    \* symbol_change_map.json: sequence of <<old, new>>
    now,        \* file-system clock
    lastOp,     \* the operation that ran last
    ratioIn,    \* factor engine: the ratio string handed to the engine
    priceIn,    \* factor engine: issue price and cum-rights market price
    engineOut,  \* factor engine: the result of the last call
    parseIn,    \* extractor: the disclosure file handed to the parser
    parseOut,   \* extractor: the result of the last parse
    run         \* the calendar day and the workflow run of main_orchestrator.py

fileVars == <<source, raw, adj, cadata, master, calc, mapping, now>>
pureVars == <<ratioIn, priceIn, engineOut, parseIn, parseOut, run>>
vars == <<source, raw, adj, cadata, master, calc, mapping, now, lastOp,
          ratioIn, priceIn, engineOut, parseIn, parseOut, run>>

\* ---------------------------------------------------------------- ledgers
Bar(d, open, close, qty) ==
    [date |-> d, open_price |-> open, close_price |-> close,
     ttl_trd_qnty |-> qty]

\* ScriptWiseUpdater.get_last_line / get_last_updated_dates for one symbol:
\* the date in the last line of the ledger file.  A file whose last line is
\* the header, or is no record, has no date; it is then taken as empty only
\* when it is smaller than 100 bytes.  FileBytes is the size as far as the
\* comparison needs it: nothing for an empty file, the header line at least
\* for any other.
FileBytes(f) == IF f.damage = "empty" THEN 0 ELSE HeaderBytes

\* get_last_updated_dates with 2000-01-01 for every file no date is read
\* from, whatever its size.
LastUpdatedDateNoSentinel(f) ==
    IF ~f.ex THEN DefaultStart
    ELSE IF f.damage \in {"none", "no_header"} /\ f.rows # <<>>
    THEN f.rows[Len(f.rows)].date
    ELSE DefaultStart

LastUpdatedDate(f) ==
    IF ~f.ex THEN DefaultStart
    ELSE IF f.damage \in {"none", "no_header"} /\ f.rows # <<>>
    THEN f.rows[Len(f.rows)].date
    ELSE IF FileBytes(f) < SmallFileBytes THEN DefaultStart
    ELSE SentinelDate

get_last_updated_dates(rawDir, symbols) ==
    [s \in symbols |-> LastUpdatedDate(rawDir[s])]

\* ScriptWiseUpdater.get_daily_files: the stored files sorted by date.  The
\* directory walk fixes no order among files of the same date.
RECURSIVE Perms(_)
Perms(S) ==
    IF S = {} THEN { <<>> }
    ELSE UNION { {<<x>> \o p : p \in Perms(S \ {x})} : x \in S }

DailyFileOrders(src) ==
    LET OfDate(d) == {id \in src : DailyFileCatalogue[id].date = d}
        F[d \in 0..MaxDate] ==
            IF d = 0 THEN { <<>> }
            ELSE {o \o p : o \in F[d - 1], p \in Perms(OfDate(d))}
    IN F[MaxDate]

\* The row loop without `last_dates[sym] = date_obj`.
RECURSIVE BufferRowsStaleLastDate(_, _, _, _)
BufferRowsStaleLastDate(rows, date_obj, st, i) ==
    IF i > Len(rows) THEN st
    ELSE LET row == rows[i]
             sym == row.symbol
         IN IF date_obj > st.last_dates[sym]
            THEN BufferRowsStaleLastDate(rows, date_obj,
                   [st EXCEPT !.buffer[sym] =
                        Append(@, Bar(date_obj, row.open_price,
                                      row.close_price, row.ttl_trd_qnty))],
                   i + 1)
            ELSE BufferRowsStaleLastDate(rows, date_obj, st, i + 1)

\* The row loop with `date_obj >= last_dates.get(sym)`.
RECURSIVE BufferRowsAtOrAfter(_, _, _, _)
BufferRowsAtOrAfter(rows, date_obj, st, i) ==
    IF i > Len(rows) THEN st
    ELSE LET row == rows[i]
             sym == row.symbol
         IN IF date_obj >= st.last_dates[sym]
            THEN BufferRowsAtOrAfter(rows, date_obj,
                   [last_dates |-> [st.last_dates EXCEPT ![sym] = date_obj],
                    buffer |-> [st.buffer EXCEPT ![sym] =
                        Append(@, Bar(date_obj, row.open_price,
                                      row.close_price, row.ttl_trd_qnty))]],
                   i + 1)
            ELSE BufferRowsAtOrAfter(rows, date_obj, st, i + 1)

\* The row loop of process_updates over one daily file.
RECURSIVE BufferRows(_, _, _, _)
BufferRows(rows, date_obj, st, i) ==
    IF i > Len(rows) THEN st
    ELSE LET row == rows[i]
             sym == row.symbol
         IN IF date_obj > st.last_dates[sym]
            THEN BufferRows(rows, date_obj,
                   [last_dates |-> [st.last_dates EXCEPT ![sym] = date_obj],
                    buffer |-> [st.buffer EXCEPT ![sym] =
                        Append(@, Bar(date_obj, row.open_price,
                                      row.close_price, row.ttl_trd_qnty))]],
                   i + 1)
            ELSE BufferRows(rows, date_obj, st, i + 1)

\* One daily file of process_updates without the column check.
BufferFileAnyColumns(file, symbols, st) ==
    LET tracked == SelectSeq(file.rows, LAMBDA r : r.symbol \in symbols)
        eq == IF file.has_series
              THEN SelectSeq(tracked, LAMBDA r : r.series = "EQ")
              ELSE tracked
    IN IF tracked = <<>> THEN st
       ELSE BufferRows(eq, file.date, st, 1)

\* One daily file of process_updates: column check, universe filter, series
\* filter, then the row loop.
BufferFile(file, symbols, st) ==
    IF ~file.columns_ok THEN st
    ELSE LET tracked == SelectSeq(file.rows, LAMBDA r : r.symbol \in symbols)
             eq == IF file.has_series
                   THEN SelectSeq(tracked, LAMBDA r : r.series = "EQ")
                   ELSE tracked
         IN IF tracked = <<>> THEN st
            ELSE BufferRows(eq, file.date, st, 1)

RECURSIVE BufferFiles(_, _, _, _)
BufferFiles(order, symbols, st, i) ==
    IF i > Len(order) THEN st
    ELSE BufferFiles(order, symbols,
                     BufferFile(DailyFileCatalogue[order[i]], symbols, st),
                     i + 1)

\* process_updates up to the batch write: the daily files that are newer
\* than the oldest last date, and the rows buffered from them.
FilesToProcess(rawDir, order) ==
    LET last_dates == get_last_updated_dates(rawDir, MasterList)
        global_min_date == SetMin({last_dates[s] : s \in MasterList})
    IN SelectSeq(order, LAMBDA id : DailyFileCatalogue[id].date > global_min_date)

SymbolDataBuffer(rawDir, order) ==
    BufferFiles(FilesToProcess(rawDir, order), MasterList,
                [last_dates |-> get_last_updated_dates(rawDir, MasterList),
                 buffer |-> [s \in MasterList |-> <<>>]], 1).buffer

\* The batch write of process_updates: the buffered rows are appended to
\* each symbol's file, which is created when missing; the header line is
\* written only with a new file.
IngestRaw(rawDir, order, t) ==
    LET symbol_data_buffer == SymbolDataBuffer(rawDir, order)
    IN [s \in DOMAIN rawDir |->
          IF symbol_data_buffer[s] # <<>>
          THEN [WrittenFile(rawDir[s].rows \o symbol_data_buffer[s], t) EXCEPT
                   !.damage = IF rawDir[s].damage \in {"empty", "no_header"}
                              THEN "no_header" ELSE "none"]
          ELSE rawDir[s]]

\* ------------------------------------------------------- symbol migration
\* drop_duplicates(subset=[date], keep='first')
DedupKeepFirst(rows) ==
    LET keep == {i \in 1..Len(rows) :
                    \A j \in 1..(i - 1) : rows[j].date # rows[i].date}
        F[i \in 0..Len(rows)] ==
            IF i = 0 THEN <<>>
            ELSE IF i \in keep THEN Append(F[i - 1], rows[i]) ELSE F[i - 1]
    IN F[Len(rows)]

\* drop_duplicates(subset=[date], keep='last')
DedupKeepLast(rows) ==
    LET keep == {i \in 1..Len(rows) :
                    \A j \in (i + 1)..Len(rows) : rows[j].date # rows[i].date}
        F[i \in 0..Len(rows)] ==
            IF i = 0 THEN <<>>
            ELSE IF i \in keep THEN Append(F[i - 1], rows[i]) ELSE F[i - 1]
    IN F[Len(rows)]

\* sort_values(by=date), rows of equal date keeping their order
RECURSIVE InsertByDate(_, _)
InsertByDate(sorted, r) ==
    IF sorted = <<>> THEN <<r>>
    ELSE IF sorted[Len(sorted)].date <= r.date THEN Append(sorted, r)
    ELSE Append(InsertByDate(SubSeq(sorted, 1, Len(sorted) - 1), r),
                sorted[Len(sorted)])

SortByDate(rows) ==
    LET F[i \in 0..Len(rows)] ==
            IF i = 0 THEN <<>> ELSE InsertByDate(F[i - 1], rows[i])
    IN F[Len(rows)]

\* The merge without drop_duplicates and sort_values.
MergeRowsNoDedup(columns, old_rows, new_file) ==
    IF new_file.ex THEN old_rows \o new_file.rows ELSE old_rows

\* The merge with pd.concat([df_new, df_old]).
MergeRowsNewFirst(columns, old_rows, new_file) ==
    LET df_combined == IF new_file.ex THEN new_file.rows \o old_rows
                       ELSE old_rows
    IN IF "date" \in columns THEN SortByDate(DedupKeepLast(df_combined))
       ELSE df_combined

\* The merge of perform_symbol_migration for one directory and one mapping
\* entry: old rows, then new rows; deduplicated and sorted only when the
\* directory's files have the date column the code looks for.
MergeRows(columns, old_rows, new_file) ==
    LET df_combined == IF new_file.ex THEN old_rows \o new_file.rows
                       ELSE old_rows
        date_col == IF "ex_date" \in columns THEN "ex_date"
                    ELSE IF "ExDate" \in columns THEN "ExDate"
                    ELSE "date"
    IN IF date_col \in columns THEN SortByDate(DedupKeepLast(df_combined))
       ELSE df_combined

\* The migration of a mapping entry done only while the new symbol has no
\* file yet.
MigrateEntryOnce(dir, columns, old_sym, new_sym, t) ==
    IF dir[old_sym].ex /\ ~dir[new_sym].ex
    THEN [dir EXCEPT ![new_sym] =
             WrittenFile(MergeRows(columns, dir[old_sym].rows, dir[new_sym]), t)]
    ELSE dir

MigrateEntry(dir, columns, old_sym, new_sym, t) ==
    IF dir[old_sym].ex
    THEN [dir EXCEPT ![new_sym] =
             WrittenFile(MergeRows(columns, dir[old_sym].rows, dir[new_sym]), t)]
    ELSE dir

\* perform_symbol_migration restricted to one directory.
RECURSIVE MigrateDir(_, _, _, _, _)
MigrateDir(dir, columns, map, t, i) ==
    IF i > Len(map) THEN dir
    ELSE MigrateDir(MigrateEntry(dir, columns, map[i][1], map[i][2], t),
                    columns, map, t, i + 1)

\* ------------------------------------------------------ numbers and texts
RECURSIVE GCD(_, _)
GCD(a, b) == IF b = 0 THEN a ELSE GCD(b, a % b)

\* A float as an exact fraction in lowest terms with a positive denominator.
Frac(n, d) ==
    LET g == GCD(IF n < 0 THEN -n ELSE n, IF d < 0 THEN -d ELSE d)
        sgn == IF d < 0 THEN -1 ELSE 1
    IN IF g = 0 THEN <<0, 1>> ELSE <<sgn * (n \div g), sgn * (d \div g)>>

FAdd(x, y) == Frac(x[1] * y[2] + y[1] * x[2], x[2] * y[2])
FMul(x, y) == Frac(x[1] * y[1], x[2] * y[2])
FDiv(x, y) == Frac(x[1] * y[2], x[2] * y[1])
FEq(x, y) == x[1] * y[2] = y[1] * x[2]
FLess(x, y) == x[1] * y[2] < y[1] * x[2]
FOne == <<1, 1>>

Pow10(k) == LET F[i \in 0..k] == IF i = 0 THEN 1 ELSE 10 * F[i - 1] IN F[k]

\* n / d (n >= 0, d > 0) scaled by 10^digits and rounded half to even, by
\* long division.
ScaleRound(n, d, digits) ==
    LET F[i \in 0..digits] ==
            IF i = 0 THEN <<n \div d, n % d>>
            ELSE LET prev == F[i - 1]
                 IN <<prev[1] * 10 + ((prev[2] * 10) \div d), (prev[2] * 10) % d>>
        res == F[digits]
        q == res[1]
        r == res[2]
    IN IF 2 * r > d \/ (2 * r = d /\ q % 2 = 1) THEN q + 1 ELSE q

Digits == <<"0", "1", "2", "3", "4", "5", "6", "7", "8", "9">>
IsDigit(c) == c \in Range(Digits)
DigitVal(c) == (CHOOSE i \in 1..10 : Digits[i] = c) - 1

RECURSIVE IntToChars(_)
IntToChars(n) ==
    IF n < 10 THEN <<Digits[n + 1]>>
    ELSE Append(IntToChars(n \div 10), Digits[(n % 10) + 1])

\* float(text) for a text of digits with an optional decimal point;
\* ok = FALSE stands for ValueError.
ParseFloat(chars) ==
    LET dots == {i \in 1..Len(chars) : chars[i] = "."}
        digs == {i \in 1..Len(chars) : IsDigit(chars[i])}
        wellformed == /\ digs # {}
                      /\ Cardinality(dots) <= 1
                      /\ digs \cup dots = 1..Len(chars)
        dot == IF dots = {} THEN Len(chars) + 1 ELSE CHOOSE i \in dots : TRUE
        V[i \in 0..Len(chars)] ==
            IF i = 0 THEN 0
            ELSE IF i = dot THEN V[i - 1]
            ELSE V[i - 1] * 10 + DigitVal(chars[i])
        decimals == IF dots = {} THEN 0 ELSE Len(chars) - dot
    IN IF wellformed
       THEN [ok |-> TRUE, val |-> Frac(V[Len(chars)], Pow10(decimals))]
       ELSE [ok |-> FALSE, val |-> <<0, 1>>]

\* text.split(':')
SplitOnColon(chars) ==
    LET F[i \in 0..Len(chars)] ==
            IF i = 0 THEN << <<>> >>
            ELSE LET prev == F[i - 1]
                 IN IF chars[i] = ":" THEN Append(prev, <<>>)
                    ELSE [prev EXCEPT ![Len(prev)] = Append(@, chars[i])]
    IN F[Len(chars)]

RECURSIVE StripZeros(_)
StripZeros(chars) ==
    IF chars # <<>> /\ chars[Len(chars)] = "0"
    THEN StripZeros(SubSeq(chars, 1, Len(chars) - 1))
    ELSE chars

RECURSIVE PadLeft(_, _)
PadLeft(chars, width) ==
    IF Len(chars) >= width THEN chars ELSE PadLeft(<<"0">> \o chars, width)

\* The decimal exponent of a positive fraction: the e with 10^e <= x < 10^(e+1),
\* for 10^-4 <= x < 10^6.
Exponent10(x) ==
    CHOOSE e \in -4..5 :
        /\ IF e >= 0 THEN Pow10(e) * x[2] <= x[1]
           ELSE x[2] <= x[1] * Pow10(-e)
        /\ IF e + 1 >= 0 THEN x[1] < Pow10(e + 1) * x[2]
           ELSE x[1] * Pow10(-(e + 1)) < x[2]

\* format(x, 'g') of a positive float, 10^-4 <= x < 10^6: six significant
\* digits in fixed notation, trailing zeros and a trailing point removed.
FormatG(x) ==
    LET e0 == Exponent10(x)
        s0 == ScaleRound(x[1], x[2], 5 - e0)
        carried == s0 >= Pow10(6)
        e == IF carried THEN e0 + 1 ELSE e0
        s == IF carried THEN s0 \div 10 ELSE s0
        decimals == 5 - e
        int_part == s \div Pow10(decimals)
        frac_part == StripZeros(PadLeft(IntToChars(s % Pow10(decimals)), decimals))
    IN IF frac_part = <<>> THEN IntToChars(int_part)
       ELSE IntToChars(int_part) \o <<".">> \o frac_part

\* ------------------------------------------------- factor engine (3.2)
NoRatio == [ok |-> FALSE, a |-> <<0, 1>>, b |-> <<0, 1>>]

\* CorporateActionEngine.parse_ratio: "A:B" to two floats; ok = FALSE is the
\* (None, None) of a ValueError or IndexError.
parse_ratio(ratio_str) ==
    LET parts == SplitOnColon(ratio_str)
        a == ParseFloat(parts[1])
        b == IF Len(parts) >= 2 THEN ParseFloat(parts[2]) ELSE [ok |-> FALSE, val |-> <<0, 1>>]
    IN IF a.ok /\ b.ok THEN [ok |-> TRUE, a |-> a.val, b |-> b.val]
       ELSE NoRatio

\* The empty dict {} the engine returns for a ratio it cannot use.  A terp
\* of 0 stands for a dict without the key 'terp'.
EmptyResult ==
    [ok |-> FALSE, action |-> "", price_multiplier |-> FOne,
     qty_multiplier |-> FOne, terp |-> <<0, 1>>]

EngineResult(action, price_multiplier, qty_multiplier) ==
    [ok |-> TRUE, action |-> action, price_multiplier |-> price_multiplier,
     qty_multiplier |-> qty_multiplier, terp |-> <<0, 1>>]

\* The dict calculate_rights returns.
RightsResult(price_multiplier, qty_multiplier_subscribed, terp) ==
    [ok |-> TRUE, action |-> "RIGHTS", price_multiplier |-> price_multiplier,
     qty_multiplier |-> qty_multiplier_subscribed, terp |-> terp]

\* `not a or not b`: a missing or zero component
Unusable(r) == ~r.ok \/ r.a[1] = 0 \/ r.b[1] = 0

\* calculate_split with the two quotients exchanged.
calculate_split_inverted(ratio) ==
    LET r == parse_ratio(ratio)
    IN IF Unusable(r) THEN EmptyResult
       ELSE EngineResult("SPLIT", FDiv(r.b, r.a), FDiv(r.a, r.b))

calculate_split(ratio) ==
    LET r == parse_ratio(ratio)
    IN IF Unusable(r) THEN EmptyResult
       ELSE EngineResult("SPLIT", FDiv(r.a, r.b), FDiv(r.b, r.a))

\* calculate_bonus reading the ratio as Held:Bonus.
calculate_bonus_held_first(ratio) ==
    LET r == parse_ratio(ratio)
        held == r.a
        bonus == r.b
    IN IF Unusable(r) THEN EmptyResult
       ELSE EngineResult("BONUS", FDiv(held, FAdd(held, bonus)),
                         FDiv(FAdd(held, bonus), held))

calculate_bonus(ratio) ==
    LET r == parse_ratio(ratio)
        bonus == r.a
        held == r.b
    IN IF Unusable(r) THEN EmptyResult
       ELSE EngineResult("BONUS", FDiv(held, FAdd(held, bonus)),
                         FDiv(FAdd(held, bonus), held))

\* calculate_rights reading the ratio as Held:Rights.
calculate_rights_held_first(ratio, issue_price, market_price_cum_rights) ==
    LET rr == parse_ratio(ratio)
        a == rr.a
        b == rr.b
        p == market_price_cum_rights
        r == issue_price
        terp == FDiv(FAdd(FMul(a, p), FMul(b, r)), FAdd(a, b))
    IN IF Unusable(rr) THEN EmptyResult
       ELSE RightsResult(FDiv(terp, p), FDiv(FAdd(a, b), a), terp)

calculate_rights(ratio, issue_price, market_price_cum_rights) ==
    LET rr == parse_ratio(ratio)
        b == rr.a
        a == rr.b
        p == market_price_cum_rights
        r == issue_price
        terp == FDiv(FAdd(FMul(a, p), FMul(b, r)), FAdd(a, b))
    IN IF Unusable(rr) THEN EmptyResult
       ELSE RightsResult(FDiv(terp, p), FDiv(FAdd(a, b), a), terp)

calculate_demerger(ratio) ==
    EngineResult("DEMERGER", FOne, FOne)

\* ----------------------------------------------- disclosure subjects (3.4)
\* A subject is a sequence of tokens: words, numbers and A:B ratios.
Word(w) == [k |-> "word", w |-> w, a |-> <<>>, b |-> <<>>]
Num(chars) == [k |-> "num", w |-> "", a |-> chars, b |-> <<>>]
Ratio(a, b) == [k |-> "ratio", w |-> "", a |-> a, b |-> b]

\* re.IGNORECASE on the words of the patterns
Lower(w) ==
    CASE w \in {"Bonus", "BONUS", "bonus"} -> "bonus"
      [] w \in {"Split", "SPLIT", "split"} -> "split"
      [] w \in {"From", "FROM", "from"} -> "from"
      [] w \in {"To", "TO", "to"} -> "to"
      [] w \in {"Rights", "RIGHTS", "rights"} -> "rights"
      [] w \in {"Premium", "PREMIUM", "premium"} -> "premium"
      [] OTHER -> w

IsWord(tok, lw) == tok.k = "word" /\ Lower(tok.w) = lw
\* a token in which \d+ finds digits, and the digits it finds first
HasNumber(tok) == tok.k \in {"num", "ratio"}
IsIntRatio(tok) ==
    /\ tok.k = "ratio"
    /\ \A i \in 1..Len(tok.a) : IsDigit(tok.a[i])
    /\ \A i \in 1..Len(tok.b) : IsDigit(tok.b[i])

NoMatch == [found |-> FALSE, g1 |-> <<>>, g2 |-> <<>>, g3 |-> <<>>]
Match(g1, g2, g3) == [found |-> TRUE, g1 |-> g1, g2 |-> g2, g3 |-> g3]

\* the first position of a set of positions, 0 if there is none
FirstOf(S) == IF S = {} THEN 0 ELSE SetMin(S)

\* the positions after i whose token is the word lw, a number, an A:B
WordsAfter(subject, i, lw) == {j \in (i + 1)..Len(subject) : IsWord(subject[j], lw)}
NumbersAfter(subject, i) == {j \in (i + 1)..Len(subject) : HasNumber(subject[j])}
RatiosAfter(subject, i) == {j \in (i + 1)..Len(subject) : IsIntRatio(subject[j])}

\* re.search(REGEX_BONUS): "Bonus" directly followed by A:B
MatchBonus(subject) ==
    LET S == {i \in 1..Len(subject) - 1 :
                 IsWord(subject[i], "bonus") /\ IsIntRatio(subject[i + 1])}
    IN IF S = {} THEN NoMatch
       ELSE LET i == SetMin(S)
            IN Match(subject[i + 1].a, subject[i + 1].b, <<>>)

\* what follows a "From" in REGEX_SPLIT_FROM_TO: the first number after it,
\* the first "To" after that number, the first number after that "To"
SplitTail(subject, f) ==
    LET n1 == FirstOf(NumbersAfter(subject, f))
        t == IF n1 = 0 THEN 0
             ELSE FirstOf(WordsAfter(subject, n1, "to"))
        n2 == IF t = 0 THEN 0 ELSE FirstOf(NumbersAfter(subject, t))
    IN IF n2 = 0 THEN NoMatch
       ELSE Match(subject[n1].a, subject[n2].a, <<>>)

\* re.search(REGEX_SPLIT_FROM_TO): the leftmost "Split", then (greedy) the
\* last "From" after it from which the rest of the pattern matches
MatchSplit(subject) ==
    LET splits == {i \in 1..Len(subject) : IsWord(subject[i], "split")}
        froms(i) == {f \in (i + 1)..Len(subject) :
                        IsWord(subject[f], "from") /\ SplitTail(subject, f).found}
        starts == {i \in splits : froms(i) # {}}
    IN IF starts = {} THEN NoMatch
       ELSE SplitTail(subject, SetMax(froms(SetMin(starts))))

\* re.search(REGEX_RIGHTS): the leftmost "Rights", the first A:B after it,
\* the first "Premium" after that, the first number after that
MatchRights(subject) ==
    LET r == FirstOf(WordsAfter(subject, 0, "rights"))
        ab == IF r = 0 THEN 0 ELSE FirstOf(RatiosAfter(subject, r))
        pr == IF ab = 0 THEN 0
              ELSE FirstOf(WordsAfter(subject, ab, "premium"))
        n == IF pr = 0 THEN 0 ELSE FirstOf(NumbersAfter(subject, pr))
    IN IF n = 0 THEN NoMatch
       ELSE Match(subject[ab].a, subject[ab].b, subject[n].a)

\* "Demerger" in subject (case-sensitive)
ContainsDemerger(subject) ==
    \E i \in 1..Len(subject) : subject[i].k = "word" /\ subject[i].w = "Demerger"

\* The subject texts of the model, each with its tokens.
SubjectTokens(text) ==
    CASE text = "Bonus 1:1" -> << Word("Bonus"), Ratio(<<"1">>, <<"1">>) >>
      [] text = "Face Value Split From Rs 10 To Rs 5" ->
            << Word("Face"), Word("Value"), Word("Split"), Word("From"), Word("Rs"),
               Num(<<"1", "0">>), Word("To"), Word("Rs"), Num(<<"5">>) >>
      [] text = "Rights 1:1 @ Premium Rs 40" ->
            << Word("Rights"), Ratio(<<"1">>, <<"1">>), Word("@"), Word("Premium"),
               Word("Rs"), Num(<<"4", "0">>) >>
      [] text = "Demerger" -> << Word("Demerger") >>
      [] text = "Dividend Rs 5 Per Share" ->
            << Word("Dividend"), Word("Rs"), Num(<<"5">>), Word("Per"), Word("Share") >>
      [] text = "BONUS 2:1" -> << Word("BONUS"), Ratio(<<"2">>, <<"1">>) >>
      [] text = "Bonus 1:1 And Face Value Split From Rs 10 To Re 1" ->
            << Word("Bonus"), Ratio(<<"1">>, <<"1">>), Word("And"), Word("Face"),
               Word("Value"), Word("Split"), Word("From"), Word("Rs"),
               Num(<<"1", "0">>), Word("To"), Word("Re"), Num(<<"1">>) >>
      [] text = "Face Value Split From Rs 10 To Re 1" ->
            << Word("Face"), Word("Value"), Word("Split"), Word("From"), Word("Rs"),
               Num(<<"1", "0">>), Word("To"), Word("Re"), Num(<<"1">>) >>
      [] text = "Stock Split From Rs 10 To Rs 3" ->
            << Word("Stock"), Word("Split"), Word("From"), Word("Rs"),
               Num(<<"1", "0">>), Word("To"), Word("Rs"), Num(<<"3">>) >>
      [] text = "Face Value Split From Rs 10 To Rs 2 And Rights 1:5 @ Premium Rs 90" ->
            << Word("Face"), Word("Value"), Word("Split"), Word("From"), Word("Rs"),
               Num(<<"1", "0">>), Word("To"), Word("Rs"), Num(<<"2">>), Word("And"),
               Word("Rights"), Ratio(<<"1">>, <<"5">>), Word("@"), Word("Premium"),
               Word("Rs"), Num(<<"9", "0">>) >>
      [] text = "Rights 3:25 @ Premium Rs 1247 Demerger" ->
            << Word("Rights"), Ratio(<<"3">>, <<"2", "5">>), Word("@"),
               Word("Premium"), Word("Rs"), Num(<<"1", "2", "4", "7">>),
               Word("Demerger") >>
      [] text = "Rights 1:14" -> << Word("Rights"), Ratio(<<"1">>, <<"1", "4">>) >>
      [] text = "Scheme Of Arrangement demerger" ->
            << Word("Scheme"), Word("Of"), Word("Arrangement"), Word("demerger") >>
      [] text = "Face Value Split From Rs 0 To Rs 5 Demerger" ->
            << Word("Face"), Word("Value"), Word("Split"), Word("From"), Word("Rs"),
               Num(<<"0">>), Word("To"), Word("Rs"), Num(<<"5">>), Word("Demerger") >>
      [] text = "Split From Rs 10 From Rs 5 To Rs 2.50" ->
            << Word("Split"), Word("From"), Word("Rs"), Num(<<"1", "0">>),
               Word("From"), Word("Rs"), Num(<<"5">>), Word("To"), Word("Rs"),
               Num(<<"2", ".", "5", "0">>) >>

SubjectTexts ==
    { "Bonus 1:1", "Face Value Split From Rs 10 To Rs 5",
      "Rights 1:1 @ Premium Rs 40", "Demerger", "Dividend Rs 5 Per Share",
      "BONUS 2:1", "Bonus 1:1 And Face Value Split From Rs 10 To Re 1",
      "Face Value Split From Rs 10 To Re 1", "Stock Split From Rs 10 To Rs 3",
      "Face Value Split From Rs 10 To Rs 2 And Rights 1:5 @ Premium Rs 90",
      "Rights 3:25 @ Premium Rs 1247 Demerger", "Rights 1:14",
      "Scheme Of Arrangement demerger",
      "Face Value Split From Rs 0 To Rs 5 Demerger",
      "Split From Rs 10 From Rs 5 To Rs 2.50" }

\* --------------------------------------- parse_corporate_actions_file (3.4)
NoPrice == [has |-> FALSE, val |-> <<0, 1>>]
Price(x) == [has |-> TRUE, val |-> x]

Event(symbol, ex_date, action_type, ratio, issue_price, remarks) ==
    [symbol |-> symbol, ex_date |-> ex_date, action_type |-> action_type,
     ratio |-> ratio, issue_price |-> issue_price, remarks |-> remarks]

\* float(row['faceVal']) if row['faceVal'] != '-' else 0
FaceValue(faceVal) ==
    IF faceVal = <<"-">> THEN [ok |-> TRUE, val |-> <<0, 1>>]
    ELSE ParseFloat(faceVal)

\* The body of the row loop of parse_corporate_actions_file: the events
\* (none or one) that one disclosure record adds.
ParseDisclosure(symbol, row) ==
    LET subject == SubjectTokens(row.subject)
        face_val == FaceValue(row.faceVal).val
        bonus_match == MatchBonus(subject)
        split_match_ft == MatchSplit(subject)
        old_fv == ParseFloat(split_match_ft.g1).val
        new_fv == ParseFloat(split_match_ft.g2).val
        rights_match == MatchRights(subject)
        premium == ParseFloat(rights_match.g3).val
    IN IF bonus_match.found
       THEN << Event(symbol, row.exDate, "BONUS",
                     bonus_match.g1 \o <<":">> \o bonus_match.g2, NoPrice, row.subject) >>
       ELSE IF split_match_ft.found /\ old_fv[1] > 0 /\ new_fv[1] > 0
       THEN << Event(symbol, row.exDate, "SPLIT",
                     <<"1", ":">> \o FormatG(FDiv(old_fv, new_fv)), NoPrice, row.subject) >>
       ELSE IF rights_match.found
       THEN << Event(symbol, row.exDate, "RIGHTS",
                     rights_match.g1 \o <<":">> \o rights_match.g2,
                     Price(FAdd(premium, face_val)), row.subject) >>
       ELSE IF ContainsDemerger(subject)
       THEN << Event(symbol, row.exDate, "DEMERGER", <<"1", ":", "1">>, NoPrice, row.subject) >>
       ELSE <<>>

\* parse_corporate_actions_file: ok = FALSE is the ValueError of a face
\* value that is no number, which the function does not catch.
parse_corporate_actions_file(symbol, file) ==
    LET rows == file.rows
        F[i \in 0..Len(rows)] ==
            IF i = 0 THEN <<>> ELSE F[i - 1] \o ParseDisclosure(symbol, rows[i])
    IN [ok |-> \A i \in 1..Len(rows) : FaceValue(rows[i].faceVal).ok,
        events |-> F[Len(rows)]]

\* ------------------------------------------- get_cum_rights_price (3.3)
\* get_cum_rights_price with the filter `df['date'] <= ex_date`.
get_cum_rights_price_on_or_before(rawDir, symbol, ex_date) ==
    LET f == rawDir[symbol]
        df == SortByDate(f.rows)
        pre_ex_df == SelectSeq(df, LAMBDA r : r.date <= ex_date)
    IN IF ~f.ex \/ ex_date = 0 \/ pre_ex_df = <<>> THEN NoPrice
       ELSE Price(Frac(pre_ex_df[Len(pre_ex_df)].close_price, 100))

\* The close of the last raw Bar before ex_date; has = FALSE is None.  An
\* ex_date of 0 is a text that is no date.
get_cum_rights_price(rawDir, symbol, ex_date) ==
    LET f == rawDir[symbol]
        df == SortByDate(f.rows)
        pre_ex_df == SelectSeq(df, LAMBDA r : r.date < ex_date)
    IN IF ~f.ex \/ ex_date = 0 \/ pre_ex_df = <<>> THEN NoPrice
       ELSE Price(Frac(pre_ex_df[Len(pre_ex_df)].close_price, 100))

\* ------------------------------------------------------ run_pipeline (3.4)
MasterOrder == <<OldSym, NewSym>>
SymbolRank(sym) == IF sym = NewSym THEN 1 ELSE 2

script_mtime == 0
dep_33_mtime == 0

Factor(symbol, action_type, ex_date, ratio, price_multiplier) ==
    [symbol |-> symbol, action_type |-> action_type, ex_date |-> ex_date,
     ratio |-> ratio, price_multiplier |-> price_multiplier]

get_mtime(f) == IF f.ex THEN f.mt ELSE 0

\* The gatekeeper of run_pipeline: TRUE when the run goes on.
should_run(caDir, masterF, calcF) ==
    LET master_mtime == get_mtime(masterF)
        data_files == {s \in DOMAIN caDir : caDir[s].ex}
        latest_data_mtime ==
            IF data_files = {} THEN 0 ELSE SetMax({caDir[s].mt : s \in data_files})
        calc_mtime == get_mtime(calcF)
        inputs_changed == latest_data_mtime > master_mtime \/ script_mtime > master_mtime
        calc_needed == \/ inputs_changed
                       \/ calc_mtime = 0
                       \/ master_mtime > calc_mtime
                       \/ dep_33_mtime > calc_mtime
                       \/ script_mtime > calc_mtime
    IN IF masterF.ex THEN calc_needed ELSE TRUE

\* sort_values(['symbol', 'ex_date'])
EventBefore(e1, e2) ==
    \/ SymbolRank(e1.symbol) < SymbolRank(e2.symbol)
    \/ SymbolRank(e1.symbol) = SymbolRank(e2.symbol) /\ e1.ex_date <= e2.ex_date

RECURSIVE InsertEvent(_, _)
InsertEvent(sorted, e) ==
    IF sorted = <<>> THEN <<e>>
    ELSE IF EventBefore(sorted[Len(sorted)], e) THEN Append(sorted, e)
    ELSE Append(InsertEvent(SubSeq(sorted, 1, Len(sorted) - 1), e),
                sorted[Len(sorted)])

SortEvents(events) ==
    LET F[i \in 0..Len(events)] ==
            IF i = 0 THEN <<>> ELSE InsertEvent(F[i - 1], events[i])
    IN F[Len(events)]

\* The parse loop of run_pipeline over the master list.
ParseStep(prev, present, evs) ==
    IF ~present THEN prev
    ELSE [ok |-> prev.ok /\ evs.ok, events |-> prev.events \o evs.events]

ParseAll(caDir) ==
    LET F[i \in 0..Len(MasterOrder)] ==
            IF i = 0 THEN [ok |-> TRUE, events |-> <<>>]
            ELSE ParseStep(F[i - 1], caDir[MasterOrder[i]].ex,
                           parse_corporate_actions_file(MasterOrder[i],
                                                        caDir[MasterOrder[i]]))
    IN F[Len(MasterOrder)]

\* The RIGHTS branch of the calculation loop, given the cum-rights price.
RightsRes(row, mkt_price) ==
    IF ~row.issue_price.has \/ row.issue_price.val[1] = 0 THEN EmptyResult
    ELSE IF mkt_price.has /\ mkt_price.val[1] # 0
    THEN calculate_rights(row.ratio, row.issue_price.val, mkt_price.val)
    ELSE EmptyResult

\* The engine call of run_pipeline for one event row.
CalcRes(rawDir, row) ==
    IF row.action_type = "SPLIT" THEN calculate_split(row.ratio)
    ELSE IF row.action_type = "BONUS" THEN calculate_bonus(row.ratio)
    ELSE IF row.action_type = "RIGHTS"
    THEN RightsRes(row, get_cum_rights_price(rawDir, row.symbol, row.ex_date))
    ELSE IF row.action_type = "DEMERGER" THEN calculate_demerger(row.ratio)
    ELSE EmptyResult

\* round(price_mult, 6), kept as a number of millionths
Round6(x) == ScaleRound(x[1], x[2], 6)

\* The calculation loop of run_pipeline: one factor per event the engine
\* has a result for.
\* The calculation loop giving up the factors collected so far at an event
\* the engine has no result for.
CalcStepDropAtGap(results, row, calc_res) ==
    IF calc_res.ok
    THEN Append(results, Factor(row.symbol, row.action_type, row.ex_date,
                                row.ratio, Round6(calc_res.price_multiplier)))
    ELSE <<>>

CalcStep(results, row, calc_res) ==
    IF calc_res.ok
    THEN Append(results, Factor(row.symbol, row.action_type, row.ex_date,
                                row.ratio, Round6(calc_res.price_multiplier)))
    ELSE results

CalcAll(rawDir, out_master) ==
    LET F[i \in 0..Len(out_master)] ==
            IF i = 0 THEN <<>>
            ELSE CalcStep(F[i - 1], out_master[i], CalcRes(rawDir, out_master[i]))
    IN F[Len(out_master)]

\* run_pipeline after the gatekeeper: the new Corporate_Actions_Master.csv
\* and Calculated_Adjustments.csv.  A parse that raises ends the run before
\* anything is written.
WriteOutputs(ok, out_master, rawDir, masterF, calcF, t) ==
    IF ~ok THEN [master |-> masterF, calc |-> calcF]
    ELSE [master |-> IF out_master # <<>> THEN WrittenFile(out_master, t)
                     ELSE masterF,
          calc |-> WrittenFile(CalcAll(rawDir, out_master), t)]

SortAndWrite(parsed, rawDir, masterF, calcF, t) ==
    WriteOutputs(parsed.ok, SortEvents(parsed.events), rawDir, masterF, calcF, t)

PipelineResult(rawDir, caDir, masterF, calcF, t) ==
    SortAndWrite(ParseAll(caDir), rawDir, masterF, calcF, t)

\* ------------------------------ update_adjustment_prices (4_Update_...)
Millionth == 1000000

\* float(adj_row['price_multiplier'])
FactorValue(adj_row) == Frac(adj_row.price_multiplier, Millionth)

\* The factor loop with the mask `df['date'] <= ex_date`.
ApplyFactorOnOrBefore(bar, adj_row) ==
    IF adj_row.ex_date = 0 THEN bar
    ELSE IF bar.date <= adj_row.ex_date
    THEN [date |-> bar.date,
          open_price |-> FMul(bar.open_price, FactorValue(adj_row)),
          close_price |-> FMul(bar.close_price, FactorValue(adj_row)),
          ttl_trd_qnty |-> FDiv(bar.ttl_trd_qnty, FactorValue(adj_row))]
    ELSE bar

\* One factor of the loop over symbol_adjs applied to one row of df: the
\* rows before ex_date are scaled, the others are left alone.  A row holds
\* floats until the rounding at the end.
ApplyFactor(bar, adj_row) ==
    IF adj_row.ex_date = 0 THEN bar
    ELSE IF bar.date < adj_row.ex_date
    THEN [date |-> bar.date,
          open_price |-> FMul(bar.open_price, FactorValue(adj_row)),
          close_price |-> FMul(bar.close_price, FactorValue(adj_row)),
          ttl_trd_qnty |-> FDiv(bar.ttl_trd_qnty, FactorValue(adj_row))]
    ELSE bar

ApplyFactors(bar, symbol_adjs) ==
    LET F[k \in 0..Len(symbol_adjs)] ==
            IF k = 0 THEN bar ELSE ApplyFactor(F[k - 1], symbol_adjs[k])
    IN F[Len(symbol_adjs)]

\* df[price_cols].round(2): a float number of paise rounded to a whole one
RoundPaise(x) == ScaleRound(x[1], x[2], 0)

\* The adjusted rows written for one symbol.
AdjustRows(raw_rows, symbol_adjs) ==
    LET df == SortByDate(raw_rows)
    IN [i \in 1..Len(df) |->
          LET bar == [date |-> df[i].date,
                      open_price |-> <<df[i].open_price, 1>>,
                      close_price |-> <<df[i].close_price, 1>>,
                      ttl_trd_qnty |-> <<df[i].ttl_trd_qnty, 1>>]
              out == ApplyFactors(bar, symbol_adjs)
          IN [date |-> out.date,
              open_price |-> RoundPaise(out.open_price),
              close_price |-> RoundPaise(out.close_price),
              ttl_trd_qnty |-> out.ttl_trd_qnty]]

\* The incremental check of update_adjustment_prices for one raw file.
should_process(rawF, outF, calcF) ==
    ~(outF.ex /\ rawF.mt < outF.mt /\ calcF.mt < outF.mt)

\* Calculated_Adjustments.csv can be read and has the columns the applier
\* uses; the file written from an empty result list has no column at all.
AdjustmentFileReadable(calcF) == calcF.ex /\ calcF.rows # <<>>

\* The applier reading the adjusted ledger, when there is one, in place of
\* the raw ledger.
ReadjustRows(adj_rows, symbol_adjs) ==
    [i \in 1..Len(adj_rows) |->
        LET bar == [date |-> adj_rows[i].date,
                    open_price |-> <<adj_rows[i].open_price, 1>>,
                    close_price |-> <<adj_rows[i].close_price, 1>>,
                    ttl_trd_qnty |-> adj_rows[i].ttl_trd_qnty]
            out == ApplyFactors(bar, symbol_adjs)
        IN [date |-> out.date,
            open_price |-> RoundPaise(out.open_price),
            close_price |-> RoundPaise(out.close_price),
            ttl_trd_qnty |-> out.ttl_trd_qnty]]

AdjustDirCompounding(rawDir, adjDir, calcF, t) ==
    IF ~AdjustmentFileReadable(calcF) THEN adjDir
    ELSE [s \in DOMAIN adjDir |->
            IF rawDir[s].ex /\ should_process(rawDir[s], adjDir[s], calcF)
            THEN LET symbol_adjs == SelectSeq(calcF.rows, LAMBDA a : a.symbol = s)
                 IN IF adjDir[s].ex
                    THEN WrittenFile(ReadjustRows(adjDir[s].rows, symbol_adjs), t)
                    ELSE WrittenFile(AdjustRows(rawDir[s].rows, symbol_adjs), t)
            ELSE adjDir[s]]

\* update_adjustment_prices: the new contents of the adjusted directory.
AdjustDir(rawDir, adjDir, calcF, t) ==
    IF ~AdjustmentFileReadable(calcF) THEN adjDir
    ELSE [s \in DOMAIN adjDir |->
            IF rawDir[s].ex /\ should_process(rawDir[s], adjDir[s], calcF)
            THEN WrittenFile(AdjustRows(rawDir[s].rows,
                                SelectSeq(calcF.rows, LAMBDA a : a.symbol = s)), t)
            ELSE adjDir[s]]

\* ------------------------------------------------------- process_updates
\* process_updates as a whole: nothing happens when no daily file is newer
\* than the oldest last date; otherwise the batch write is followed by the
\* migration of the raw, the adjusted and the disclosure directory, in this
\* order (t: time of the raw writes, t2 >= t: time of the later writes).
ProcessUpdatesResult(rawDir, adjDir, caDir, map, order, t, t2) ==
    IF FilesToProcess(rawDir, order) = <<>>
    THEN [raw |-> rawDir, adj |-> adjDir, cadata |-> caDir]
    ELSE [raw |-> MigrateDir(IngestRaw(rawDir, order, t), RawColumns, map, t, 1),
          adj |-> MigrateDir(adjDir, RawColumns, map, t2, 1),
          cadata |-> MigrateDir(caDir, DisclosureColumns, map, t2, 1)]

\* ----------------------------------------------------- disclosure files
Disclosure(subject, exDate, faceVal) ==
    [subject |-> subject, exDate |-> exDate, faceVal |-> faceVal]

\* The disclosure files the corporate-action downloader can store for a
\* symbol (newest record first, as the exchange lists them).
CoreDisclosures(sym) ==
    IF sym = OldSym
    THEN { << Disclosure("Demerger", 3, <<"-">>),
              Disclosure("Rights 1:1 @ Premium Rs 40", 2, <<"1", "0">>) >>,
           << Disclosure("Dividend Rs 5 Per Share", 1, <<"1", "0">>) >> }
    ELSE { << Disclosure("Bonus 1:1", 3, <<"1", "0">>),
              Disclosure("Face Value Split From Rs 10 To Rs 5", 2, <<"5">>) >> }

\* The same, and a file whose only record is a demerger.
DisclosureCatalogue(sym) ==
    IF sym = OldSym
    THEN CoreDisclosures(sym) \cup { << Disclosure("Demerger", 3, <<"-">>) >> }
    ELSE CoreDisclosures(sym)

\* The same, and a file of the old symbol whose record has a face value
\* that is no number.
StoredDisclosures(sym) ==
    IF sym = OldSym
    THEN DisclosureCatalogue(sym)
            \cup { << Disclosure("Rights 1:1 @ Premium Rs 40", 2, <<"N", "A">>) >> }
    ELSE DisclosureCatalogue(sym)

NoMapping == <<>>
RenameMapping == << <<OldSym, NewSym>> >>

\* ------------------------------------- the downloader's catch-up job (1_)
\* 2020-01-01, the first date of the history download
HistoryStart == 1

\* The daily file the exchange has for a date, and the dates of stored files.
FileOfDate(d) == CHOOSE id \in CoreFileIds : DailyFileCatalogue[id].date = d
StoredDates(src) == {DailyFileCatalogue[id].date : id \in src}

\* The dates the exchange has a daily file for.
ExchangeDates == {DailyFileCatalogue[id].date : id \in CoreFileIds}

\* BhavcopyManager.get_last_downloaded_date; 0 stands for None
get_last_downloaded_date(src) ==
    IF src = {} THEN 0 ELSE SetMax(StoredDates(src))

\* BhavcopyManager.download_range: every date of the range without a file
\* is attempted once; `answered` are the dates the exchange answers for
\* during this run, with the file of the date if it has one.
download_range(src, start_date, end_date, answered) ==
    src \cup {FileOfDate(d) : d \in {x \in start_date..end_date :
                                        /\ x \notin StoredDates(src)
                                        /\ x \in answered
                                        /\ x \in ExchangeDates}}

\* BhavcopyManager.daily_job: the stored files after the job
daily_job(src, today, answered) ==
    LET last_date == get_last_downloaded_date(src)
    IN IF last_date # 0
       THEN IF last_date + 1 <= today
            THEN download_range(src, last_date + 1, today, answered)
            ELSE src
       ELSE download_range(src, HistoryStart, today, answered)

\* ------------------------------------------------- main_orchestrator.py
StepNames == 1..8

\* check_for_missing_symbols
check_for_missing_symbols(rawDir, adjDir) ==
    \E sym \in MasterList : ~rawDir[sym].ex \/ ~adjDir[sym].ex

\* No workflow run yet, on the first calendar day.
NoRun ==
    [today |-> 1, pc |-> "idle", missing_symbols_found |-> FALSE,
     process_data |-> FALSE, new_ca_found |-> FALSE,
     step_results |-> [i \in StepNames |-> "SKIPPED"],
     executed |-> <<>>, ret |-> 0, summary |-> FALSE, completed |-> FALSE,
     exit |-> "none"]

\* ------------------------------------- GCP Cloud Integration (the bucket)
\* In the cloud workflow the same stores are folders of one bucket:
\* bhavcopy (source), script_data (raw), adjusted_data (adj),
\* corporate_actions (cadata) and the two files under config.

\* CloudScriptUpdater.get_latest_bhavcopy_blob: the stored file that is
\* last by name, that is by date.
get_latest_bhavcopy_blob(src) ==
    CHOOSE id \in src : DailyFileCatalogue[id].date = SetMax(StoredDates(src))

\* The row loop of process_latest_bhavcopy for one row of the filtered
\* file: the row is appended unless the ledger has its date.
CloudAppendRow(rawDir, row, file_date, t) ==
    IF row.symbol \notin DOMAIN rawDir THEN rawDir
    ELSE LET new_row == Bar(file_date, row.open_price, row.close_price,
                            row.ttl_trd_qnty)
             f == rawDir[row.symbol]
         IN IF f.ex
            THEN IF file_date \in DatesOf(f.rows) THEN rawDir
                 ELSE [rawDir EXCEPT
                          ![row.symbol] = WrittenFile(Append(f.rows, new_row), t)]
            ELSE [rawDir EXCEPT ![row.symbol] = WrittenFile(<<new_row>>, t)]

\* CloudScriptUpdater.process_latest_bhavcopy: the ledgers after the run.
process_latest_bhavcopy(rawDir, src, t) ==
    IF src = {} THEN rawDir
    ELSE LET file == DailyFileCatalogue[get_latest_bhavcopy_blob(src)]
             df == SelectSeq(file.rows,
                             LAMBDA r : /\ r.symbol \in MasterList
                                        /\ (file.has_series => r.series = "EQ"))
             F[i \in 0..Len(df)] ==
                 IF i = 0 THEN rawDir
                 ELSE CloudAppendRow(F[i - 1], df[i], file.date, t)
         IN IF ~file.columns_ok THEN rawDir ELSE F[Len(df)]

\* The disclosures the exchange can answer with for every symbol; <<>> is
\* no answer.
CloudAnswers ==
    [MasterList -> {<<>>} \cup CoreDisclosures(OldSym) \cup CoreDisclosures(NewSym)]

\* CloudCorporateActions.run: a symbol's file is written when the answer
\* differs from what is stored.
CloudWriteNeeded(caDir, fetched, sym) ==
    /\ fetched[sym] # <<>>
    /\ ~(caDir[sym].ex /\ caDir[sym].rows = fetched[sym])

cloud_corporate_actions(caDir, fetched, t) ==
    [sym \in DOMAIN caDir |->
        IF CloudWriteNeeded(caDir, fetched, sym)
        THEN WrittenFile(fetched[sym], t) ELSE caDir[sym]]

\* CloudAdjustmentGenerator.parse_ca_file: the events of one record; a
\* matched split with no positive new face value adds nothing, and no
\* demerger is looked for.
CloudParseDisclosure(symbol, row) ==
    LET subject == SubjectTokens(row.subject)
        face_val == FaceValue(row.faceVal).val
        bonus_match == MatchBonus(subject)
        split_match == MatchSplit(subject)
        old_fv == ParseFloat(split_match.g1).val
        new_fv == ParseFloat(split_match.g2).val
        rights_match == MatchRights(subject)
        premium == ParseFloat(rights_match.g3).val
    IN IF bonus_match.found
       THEN << Event(symbol, row.exDate, "BONUS",
                     bonus_match.g1 \o <<":">> \o bonus_match.g2, NoPrice, row.subject) >>
       ELSE IF split_match.found
       THEN IF new_fv[1] > 0
            THEN << Event(symbol, row.exDate, "SPLIT",
                          <<"1", ":">> \o FormatG(FDiv(old_fv, new_fv)), NoPrice,
                          row.subject) >>
            ELSE <<>>
       ELSE IF rights_match.found
       THEN << Event(symbol, row.exDate, "RIGHTS",
                     rights_match.g1 \o <<":">> \o rights_match.g2,
                     Price(FAdd(premium, face_val)), row.subject) >>
       ELSE <<>>

parse_ca_file(symbol, file) ==
    LET rows == file.rows
        F[i \in 0..Len(rows)] ==
            IF i = 0 THEN <<>> ELSE F[i - 1] \o CloudParseDisclosure(symbol, rows[i])
    IN [ok |-> \A i \in 1..Len(rows) : FaceValue(rows[i].faceVal).ok,
        events |-> F[Len(rows)]]

\* The parse loop of CloudAdjustmentGenerator.run over the master list.
CloudParseAll(caDir) ==
    LET F[i \in 0..Len(MasterOrder)] ==
            IF i = 0 THEN [ok |-> TRUE, events |-> <<>>]
            ELSE ParseStep(F[i - 1],
                           caDir[MasterOrder[i]].ex /\ caDir[MasterOrder[i]].rows # <<>>,
                           parse_ca_file(MasterOrder[i], caDir[MasterOrder[i]]))
    IN F[Len(MasterOrder)]

\* The engine call of CloudAdjustmentGenerator.run for one event row.
CloudCalcRes(rawDir, row) ==
    IF row.action_type = "SPLIT" THEN calculate_split(row.ratio)
    ELSE IF row.action_type = "BONUS" THEN calculate_bonus(row.ratio)
    ELSE IF row.action_type = "RIGHTS"
    THEN LET mp == get_cum_rights_price(rawDir, row.symbol, row.ex_date)
         IN IF mp.has /\ mp.val[1] # 0
            THEN calculate_rights(row.ratio, row.issue_price.val, mp.val)
            ELSE EmptyResult
    ELSE EmptyResult

CloudCalcAll(rawDir, out_master) ==
    LET F[i \in 0..Len(out_master)] ==
            IF i = 0 THEN <<>>
            ELSE CalcStep(F[i - 1], out_master[i], CloudCalcRes(rawDir, out_master[i]))
    IN F[Len(out_master)]

\* CloudAdjustmentGenerator.run: nothing is written without an event, and
\* the factor file only when there is a factor.
CloudWriteOutputs(ok, out_master, results, masterF, calcF, t) ==
    IF ~ok \/ out_master = <<>> THEN [master |-> masterF, calc |-> calcF]
    ELSE [master |-> WrittenFile(out_master, t),
          calc |-> IF results # <<>> THEN WrittenFile(results, t) ELSE calcF]

cloud_generate_adjustments(rawDir, caDir, masterF, calcF, t) ==
    LET parsed == CloudParseAll(caDir)
        out_master == SortEvents(parsed.events)
    IN CloudWriteOutputs(parsed.ok, out_master, CloudCalcAll(rawDir, out_master),
                         masterF, calcF, t)

\* CloudPriceAdjuster.run: every ledger of script_data is copied, or
\* adjusted when the factor file names its symbol.
cloud_update_adjustment_prices(rawDir, adjDir, calcF, t) ==
    IF ~calcF.ex THEN adjDir
    ELSE [s \in DOMAIN adjDir |->
            IF rawDir[s].ex
            THEN WrittenFile(AdjustRows(rawDir[s].rows,
                                SelectSeq(calcF.rows, LAMBDA a : a.symbol = s)), t)
            ELSE adjDir[s]]

\* No run of the cloud workflow yet.
CloudNoRun ==
    [today |-> 1, pc |-> "idle", new_data |-> FALSE, new_ca |-> FALSE,
     executed |-> <<>>, ret |-> 0, appended |-> {}, exit |-> "none"]

\* ------------------------------------------------------------------ state
EmptyDir == [s \in MasterList |-> AbsentFile]

InitFiles ==
    /\ source = {}
    /\ raw = EmptyDir
    /\ adj = EmptyDir
    /\ cadata = EmptyDir
    /\ master = AbsentFile
    /\ calc = AbsentFile
    /\ now = 1
    /\ lastOp = "init"
    /\ run = NoRun

NoParse == [ok |-> TRUE, events |-> <<>>]

Init ==
    /\ InitFiles
    /\ mapping \in {NoMapping, RenameMapping}
    /\ ratioIn = <<>>
    /\ priceIn = [issue |-> FOne, market |-> FOne]
    /\ engineOut = EmptyResult
    /\ parseIn = <<>>
    /\ parseOut = NoParse

\* The downloader stores one more daily file.
Download(id) ==
    /\ id \notin source
    /\ source' = source \cup {id}
    /\ lastOp' = "input"
    /\ UNCHANGED <<raw, adj, cadata, master, calc, mapping, now>>
    /\ UNCHANGED pureVars

\* The corporate-action downloader stores (or stores again) the disclosure
\* file of one symbol.
FetchDisclosures(sym, content) ==
    /\ content \in StoredDisclosures(sym)
    /\ cadata' = [cadata EXCEPT ![sym] = WrittenFile(content, now)]
    /\ lastOp' = "input"
    /\ UNCHANGED <<source, raw, adj, master, calc, mapping, now>>
    /\ UNCHANGED pureVars

\* ScriptWiseUpdater.process_updates
ProcessUpdates(order, lag) ==
    LET res == ProcessUpdatesResult(raw, adj, cadata, mapping, order, now, now + lag)
    IN /\ now + lag <= MaxClock
       /\ \A s \in MasterList : Len(res.cadata[s].rows) <= MaxDisclosures
       /\ raw' = res.raw
       /\ adj' = res.adj
       /\ cadata' = res.cadata
       /\ now' = now + lag
       /\ lastOp' = "ingest"
       /\ UNCHANGED <<source, master, calc, mapping>>
       /\ UNCHANGED pureVars

\* run_pipeline of 3.4_generate_adjustments.py
RunPipeline ==
    /\ IF should_run(cadata, master, calc)
       THEN \E res \in {PipelineResult(raw, cadata, master, calc, now)} :
               /\ master' = res.master
               /\ calc' = res.calc
               /\ lastOp' = "pipeline"
       ELSE /\ UNCHANGED <<master, calc>>
            /\ lastOp' = "pipeline_skipped"
    /\ UNCHANGED <<source, raw, adj, cadata, mapping, now>>
    /\ UNCHANGED pureVars

\* update_adjustment_prices of 4_Update_Adjustment_Prices.py
UpdateAdjustmentPrices ==
    /\ adj' = AdjustDir(raw, adj, calc, now)
    /\ lastOp' = "adjust"
    /\ UNCHANGED <<source, raw, cadata, master, calc, mapping, now>>
    /\ UNCHANGED pureVars

\* Time passes; a tick that no file could tell from the last one is left out.
WrittenNow(f) == f.ex /\ f.mt = now
Tick ==
    /\ now < MaxClock
    /\ \/ \E s \in MasterList :
             WrittenNow(raw[s]) \/ WrittenNow(adj[s]) \/ WrittenNow(cadata[s])
       \/ WrittenNow(master)
       \/ WrittenNow(calc)
    /\ now' = now + 1
    /\ UNCHANGED <<source, raw, adj, cadata, master, calc, mapping, lastOp>>
    /\ UNCHANGED pureVars

\* The catch-up job of the downloader when every download succeeds: one
\* file per date, stored in date order.
DownloadNext(id) ==
    /\ id \in CoreFileIds
    /\ \A other \in CoreFileIds :
          DailyFileCatalogue[other].date < DailyFileCatalogue[id].date => other \in source
    /\ Download(id)

Next ==
    \/ \E id \in CoreFileIds : DownloadNext(id)
    \/ \E sym \in MasterList : \E content \in CoreDisclosures(sym) :
          FetchDisclosures(sym, content)
    \/ \E order \in DailyFileOrders(source), lag \in {0, 1} : ProcessUpdates(order, lag)
    \/ RunPipeline
    \/ UpdateAdjustmentPrices
    \/ Tick

Spec == Init /\ [][Next]_vars

\* --------------------------------------------- main of main_orchestrator.py
\* update_res
update_res(r, idx, status) == [r EXCEPT !.step_results[idx] = status]

\* `if not success:` after a step: the step is marked FAILED, the summary
\* is printed and sys.exit(1) ends the run.
FailStepContinues(r, idx, ret) ==
    [update_res(r, idx, "FAILED") EXCEPT !.ret = ret, !.pc = "commit1"]

FailStep(r, idx, ret) ==
    [update_res(r, idx, "FAILED") EXCEPT
        !.ret = ret, !.summary = TRUE, !.exit = "1", !.pc = "ended"]

\* STEP 1 after a success of run_step: 10 and 20 both set process_data.
AfterDownloader(r, ret) ==
    [update_res(r, 1, IF ret = 10 THEN "SUCCESS" ELSE "DONE") EXCEPT
        !.ret = ret, !.process_data = TRUE, !.pc = "commit1"]

\* The calendar moves on to the next day.
NextDay ==
    /\ run.today < MaxDate
    /\ run' = [run EXCEPT !.today = @ + 1]
    /\ UNCHANGED <<ratioIn, priceIn, engineOut, parseIn, parseOut, lastOp>>
    /\ UNCHANGED fileVars

\* main before STEP 1: the flags, the summary table and
\* check_for_missing_symbols.
MainStart ==
    /\ run.pc \in {"idle", "ended"}
    /\ run' = [NoRun EXCEPT
                  !.today = run.today, !.pc = "step1",
                  !.missing_symbols_found = check_for_missing_symbols(raw, adj)]
    /\ lastOp' = "main"
    /\ UNCHANGED <<ratioIn, priceIn, engineOut, parseIn, parseOut>>
    /\ UNCHANGED fileVars

\* STEP 1, the downloader script runs to its exit code: 10 when daily_job
\* stored a file, 20 otherwise.
MainDownloader(answered) ==
    /\ run.pc = "step1"
    /\ \E stored \in {daily_job(source, run.today, answered)} :
          /\ source' = stored
          /\ run' = [AfterDownloader(run, IF stored # source THEN 10 ELSE 20)
                        EXCEPT !.executed = Append(@, 1)]
    /\ lastOp' = "step"
    /\ UNCHANGED <<raw, adj, cadata, master, calc, mapping, now>>
    /\ UNCHANGED <<ratioIn, priceIn, engineOut, parseIn, parseOut>>

\* STEP 1 fails: run_step finds no script file (-1), or the script ends
\* with a code that is none of 0, 10, 20.
MainDownloaderFails(ret) ==
    /\ run.pc = "step1"
    /\ run' = [FailStep(run, 1, ret) EXCEPT
                  !.executed = IF ret = -1 THEN @ ELSE Append(@, 1)]
    /\ lastOp' = "step_failed"
    /\ UNCHANGED <<ratioIn, priceIn, engineOut, parseIn, parseOut>>
    /\ UNCHANGED fileVars

\* `run_git_commit("Step 1: Downloader")`: the module defines no
\* run_git_commit, the call raises NameError and main ends there.
MainGitCommit ==
    /\ run.pc = "commit1"
    /\ run' = [run EXCEPT !.pc = "ended", !.exit = "NameError"]
    /\ lastOp' = "NameError"
    /\ UNCHANGED <<ratioIn, priceIn, engineOut, parseIn, parseOut>>
    /\ UNCHANGED fileVars

\* The workflow of main_orchestrator.py, day after day, next to the
\* scripts of the pipeline started by hand.
NextOrchestrator ==
    \/ NextDay
    \/ MainStart
    \/ \E answered \in SUBSET Dates : MainDownloader(answered)
    \/ \E ret \in {-1, 1} : MainDownloaderFails(ret)
    \/ MainGitCommit
    \/ \E order \in DailyFileOrders(source) : ProcessUpdates(order, 0)
    \/ \E content \in CoreDisclosures(NewSym) : FetchDisclosures(NewSym, content)
    \/ RunPipeline
    \/ UpdateAdjustmentPrices

SpecOrchestrator == Init /\ [][NextOrchestrator]_vars

\* ------------------------------------ main of GCP Cloud Integration/main.py
\* main before Step 1: the state flags.
CloudStart ==
    /\ run.pc \in {"idle", "ended"}
    /\ run' = [CloudNoRun EXCEPT !.today = run.today, !.pc = "step1"]
    /\ lastOp' = "cloud_main"
    /\ UNCHANGED <<ratioIn, priceIn, engineOut, parseIn, parseOut>>
    /\ UNCHANGED fileVars

\* Step 1, the downloader: 10 when daily_job stored a file, 20 otherwise.
CloudDownloader(answered) ==
    /\ run.pc = "step1"
    /\ \E stored \in {daily_job(source, run.today, answered)} :
          /\ source' = stored
          /\ run' = [run EXCEPT
                        !.ret = IF stored # source THEN 10 ELSE 20,
                        !.new_data = stored # source,
                        !.executed = Append(@, 1),
                        !.pc = "step2"]
    /\ lastOp' = "cloud_step"
    /\ UNCHANGED <<raw, adj, cadata, master, calc, mapping, now>>
    /\ UNCHANGED <<ratioIn, priceIn, engineOut, parseIn, parseOut>>

\* Step 1 ends with another code: sys.exit(1).
CloudDownloaderFails ==
    /\ run.pc = "step1"
    /\ run' = [run EXCEPT !.ret = 1, !.executed = Append(@, 1),
                          !.exit = "1", !.pc = "ended"]
    /\ lastOp' = "cloud_failed"
    /\ UNCHANGED <<ratioIn, priceIn, engineOut, parseIn, parseOut>>
    /\ UNCHANGED fileVars

\* Step 2, the updater, only with new data.
CloudUpdater ==
    /\ run.pc = "step2"
    /\ IF run.new_data
       THEN \E updated \in {process_latest_bhavcopy(raw, source, now)} :
               /\ raw' = updated
               /\ run' = [run EXCEPT
                             !.appended = {s \in MasterList : updated[s] # raw[s]},
                             !.executed = Append(@, 2),
                             !.pc = "step3"]
       ELSE /\ UNCHANGED raw
            /\ run' = [run EXCEPT !.pc = "step3"]
    /\ lastOp' = "cloud_step"
    /\ UNCHANGED <<source, adj, cadata, master, calc, mapping, now>>
    /\ UNCHANGED <<ratioIn, priceIn, engineOut, parseIn, parseOut>>

\* Step 3, the corporate actions: 10 when a disclosure file was written.
CloudCorporateActions(fetched) ==
    /\ run.pc = "step3"
    /\ cadata' = cloud_corporate_actions(cadata, fetched, now)
    /\ run' = [run EXCEPT
                  !.ret = IF \E sym \in MasterList :
                                CloudWriteNeeded(cadata, fetched, sym)
                          THEN 10 ELSE 20,
                  !.new_ca = \E sym \in MasterList :
                                CloudWriteNeeded(cadata, fetched, sym),
                  !.executed = Append(@, 3),
                  !.pc = "step4"]
    /\ lastOp' = "cloud_step"
    /\ UNCHANGED <<source, raw, adj, master, calc, mapping, now>>
    /\ UNCHANGED <<ratioIn, priceIn, engineOut, parseIn, parseOut>>

\* Step 4, the factors, only with new corporate actions.
CloudGenerate ==
    /\ run.pc = "step4"
    /\ IF run.new_ca
       THEN \E res \in {cloud_generate_adjustments(raw, cadata, master, calc, now)} :
               /\ master' = res.master
               /\ calc' = res.calc
               /\ run' = [run EXCEPT !.executed = Append(@, 4), !.pc = "step5"]
       ELSE /\ UNCHANGED <<master, calc>>
            /\ run' = [run EXCEPT !.pc = "step5"]
    /\ lastOp' = "cloud_step"
    /\ UNCHANGED <<source, raw, adj, cadata, mapping, now>>
    /\ UNCHANGED <<ratioIn, priceIn, engineOut, parseIn, parseOut>>

\* Step 5, the applier, only with new corporate actions.
CloudApply ==
    /\ run.pc = "step5"
    /\ IF run.new_ca
       THEN /\ adj' = cloud_update_adjustment_prices(raw, adj, calc, now)
            /\ run' = [run EXCEPT !.executed = Append(@, 5), !.pc = "step6"]
       ELSE /\ UNCHANGED adj
            /\ run' = [run EXCEPT !.pc = "step6"]
    /\ lastOp' = "cloud_step"
    /\ UNCHANGED <<source, raw, cadata, master, calc, mapping, now>>
    /\ UNCHANGED <<ratioIn, priceIn, engineOut, parseIn, parseOut>>

\* Steps 6 and 7, the RSI report from adjusted_data and the notification,
\* with new data or new corporate actions.
CloudRSI ==
    /\ run.pc = "step6"
    /\ run' = [run EXCEPT
                  !.executed = IF run.new_data \/ run.new_ca
                               THEN @ \o <<6, 7>> ELSE @,
                  !.pc = "ended"]
    /\ lastOp' = "cloud_step"
    /\ UNCHANGED <<ratioIn, priceIn, engineOut, parseIn, parseOut>>
    /\ UNCHANGED fileVars

\* The cloud workflow, day after day.
NextCloud ==
    \/ NextDay
    \/ CloudStart
    \/ \E answered \in SUBSET Dates : CloudDownloader(answered)
    \/ CloudDownloaderFails
    \/ CloudUpdater
    \/ \E fetched \in CloudAnswers : CloudCorporateActions(fetched)
    \/ CloudGenerate
    \/ CloudApply
    \/ CloudRSI

SpecCloud == Init /\ [][NextCloud]_vars

\* The pipeline within one tick of the clock, over every disclosure file of
\* the old symbol.
NextDemerger ==
    \/ \E id \in CoreFileIds : DownloadNext(id)
    \/ \E content \in DisclosureCatalogue(OldSym) : FetchDisclosures(OldSym, content)
    \/ \E order \in DailyFileOrders(source) : ProcessUpdates(order, 0)
    \/ RunPipeline
    \/ UpdateAdjustmentPrices

SpecDemerger == Init /\ [][NextDemerger]_vars

\* The pipeline within one tick of the clock, over every disclosure file of
\* both symbols, the one with the unreadable face value included.
NextFaceValue ==
    \/ \E id \in CoreFileIds : DownloadNext(id)
    \/ \E sym \in {OldSym, NewSym} : \E content \in StoredDisclosures(sym) :
          FetchDisclosures(sym, content)
    \/ \E order \in DailyFileOrders(source) : ProcessUpdates(order, 0)
    \/ RunPipeline
    \/ UpdateAdjustmentPrices

SpecFaceValue == Init /\ [][NextFaceValue]_vars

\* Ingestion alone, over every daily file of the catalogue.
NextIngest ==
    \/ \E id \in DailyFileIds : Download(id)
    \/ \E order \in DailyFileOrders(source), lag \in {0, 1} : ProcessUpdates(order, lag)
    \/ Tick

SpecIngest == Init /\ [][NextIngest]_vars

\* ------------------------------------------------------ damaged ledgers
\* A raw ledger is left with a last line that is no record (a write that
\* went wrong), or a ledger file is created and left without a byte.
GarbleLastLine(sym) ==
    /\ raw[sym].ex /\ raw[sym].damage = "none" /\ raw[sym].rows # <<>>
    /\ raw' = [raw EXCEPT ![sym].damage = "bad_tail", ![sym].mt = now]
    /\ lastOp' = "damage"
    /\ UNCHANGED <<source, adj, cadata, master, calc, mapping, now>>
    /\ UNCHANGED pureVars

EmptyLedger(sym) ==
    /\ ~raw[sym].ex
    /\ raw' = [raw EXCEPT ![sym] = [WrittenFile(<<>>, now) EXCEPT !.damage = "empty"]]
    /\ lastOp' = "damage"
    /\ UNCHANGED <<source, adj, cadata, master, calc, mapping, now>>
    /\ UNCHANGED pureVars

\* Ingestion without a symbol mapping over ledgers that can be damaged.
InitDamage == Init /\ mapping = NoMapping

NextDamage ==
    \/ \E id \in DailyFileIds : Download(id)
    \/ \E order \in DailyFileOrders(source), lag \in {0, 1} : ProcessUpdates(order, lag)
    \/ \E sym \in MasterList : GarbleLastLine(sym)
    \/ \E sym \in MasterList : EmptyLedger(sym)
    \/ Tick

SpecDamage == InitDamage /\ [][NextDamage]_vars

\* ------------------------------------------------- properties of ingestion
RowsOf(dir) == [s \in DOMAIN dir |-> dir[s].rows]

\* C1: after any sequence of process_updates runs over any set of daily
\* files (files read again by a later run and files with several rows of
\* one symbol included), every raw ledger holds at most one Bar per date.
C1_OneBarPerDate == \A s \in MasterList : NoDuplicateDates(raw[s].rows)

\* A run has written the two-row symbol: the file with two EQ rows of
\* OLDCO for date 2 is stored, and the ledger holds date 1 and date 2.
C1_Witness ==
    /\ lastOp = "ingest"
    /\ {1, 2} \subseteq source
    /\ DatesOf(raw[OldSym].rows) = {1, 2}
    /\ raw[OldSym].rows[2].open_price = DailyFileCatalogue[2].rows[2].open_price

\* The ledgers of the mapping's new symbols, with the old symbol of each.
MigratedFrom(s) == {mapping[i][1] : i \in {j \in 1..Len(mapping) : mapping[j][2] = s}}

\* C2: raw ledgers grow forward only.  No run buffers a Bar dated at or
\* before the symbol's last date; what a run adds to a ledger is dated after
\* its last date (or is a Bar merged in from the ledger of the symbol's old
\* name); every ledger stays strictly ascending; no last date decreases.
C2_Step ==
    \A s \in MasterList :
       /\ \A order \in DailyFileOrders(source) :
             \A b \in Range(SymbolDataBuffer(raw, order)[s]) :
                b.date > LastUpdatedDate(raw[s])
       /\ \A b \in Range(raw'[s].rows) \ Range(raw[s].rows) :
             \/ b.date > LastUpdatedDate(raw[s])
             \/ \E o \in MigratedFrom(s) : b \in Range(raw'[o].rows)
       /\ StrictlyAscending(raw'[s].rows)
       /\ LastUpdatedDate(raw'[s]) >= LastUpdatedDate(raw[s])

C2_ForwardOnly == [][C2_Step]_vars

\* A run has passed over a stored file that it read and whose OLDCO rows
\* are not newer than the ledger: they were skipped.
C2_Witness ==
    /\ lastOp = "ingest"
    /\ Len(raw[OldSym].rows) = 2
    /\ \E order \in DailyFileOrders(source) :
          \E i \in 1..Len(FilesToProcess(raw, order)) :
             LET file == DailyFileCatalogue[FilesToProcess(raw, order)[i]]
             IN /\ file.columns_ok
                /\ file.date <= LastUpdatedDate(raw[OldSym])
                /\ \E j \in 1..Len(file.rows) : file.rows[j].symbol = OldSym

\* C3: ingestion is idempotent.  After a run, another run over the stored
\* daily files, in any order the directory walk gives, leaves every raw
\* ledger with the same rows.
C3_Idempotent ==
    lastOp = "ingest" =>
       \A order \in DailyFileOrders(source) :
          RowsOf(ProcessUpdatesResult(raw, adj, cadata, mapping, order, now, now).raw)
             = RowsOf(raw)

\* After a run, with a rename mapped, a second run would read files again
\* (some symbol is still behind them) and merge the old ledger again.
C3_Witness ==
    /\ lastOp = "ingest"
    /\ mapping = RenameMapping
    /\ Len(raw[NewSym].rows) >= 2
    /\ raw[OldSym].ex
    /\ \E order \in DailyFileOrders(source) : Len(FilesToProcess(raw, order)) >= 2

\* The ledger `out` is the merge of the ledgers `old` and `new`: one row per
\* date of either, the row of `new` on a date of both, ascending by date,
\* and the rows of `old` when there is no `new`.
MergedLedger(old, new, out) ==
    /\ out.ex
    /\ DatesOf(out.rows) = DatesOf(old.rows) \cup DatesOf(new.rows)
    /\ NoDuplicateDates(out.rows)
    /\ StrictlyAscending(out.rows)
    /\ \A i \in 1..Len(out.rows) :
          IF out.rows[i].date \in DatesOf(new.rows)
          THEN out.rows[i] \in Range(new.rows)
          ELSE out.rows[i] \in Range(old.rows)
    /\ ~new.ex => out.rows = old.rows

\* C18: a run of process_updates that migrates old -> new leaves under the
\* new symbol the merge of the two raw ledgers as the batch write left
\* them: one row per date of either, the new ledger's row on a date of
\* both, ascending by date; the old ledger's rows when there was no new one.
C18_Step ==
    \A order \in DailyFileOrders(source), lag \in {0, 1} :
       ProcessUpdates(order, lag) /\ FilesToProcess(raw, order) # <<>> =>
          \A i \in 1..Len(mapping) :
             IngestRaw(raw, order, now)[mapping[i][1]].ex =>
                MergedLedger(IngestRaw(raw, order, now)[mapping[i][1]],
                             IngestRaw(raw, order, now)[mapping[i][2]],
                             raw'[mapping[i][2]])

C18_Merge == [][C18_Step]_vars

\* After a migration the new symbol's ledger holds its own Bar of date 1,
\* where the old symbol has another Bar, and the old symbol's Bar of
\* date 2, where it had none.
C18_Witness ==
    /\ lastOp = "ingest"
    /\ mapping = RenameMapping
    /\ Len(raw[NewSym].rows) = 2
    /\ raw[NewSym].rows[1] = Bar(1, 19905, 20000, 30)
    /\ raw[NewSym].rows[2] \in Range(raw[OldSym].rows)
    /\ \E i \in 1..Len(raw[OldSym].rows) :
          raw[OldSym].rows[i].date = 1 /\ raw[OldSym].rows[i] # raw[NewSym].rows[1]

\* The raw directory after the migration of old -> new.
Migrated(rawDir) == MigrateDir(rawDir, RawColumns, RenameMapping, now, 1)

\* The stored daily files are those of a renamed symbol: every row of the
\* old name is dated before every row of the new name.
OldBarsBeforeNew(src) ==
    \A i, j \in src :
       \A a \in 1..Len(DailyFileCatalogue[i].rows), b \in 1..Len(DailyFileCatalogue[j].rows) :
          (/\ DailyFileCatalogue[i].rows[a].symbol = OldSym
           /\ DailyFileCatalogue[j].rows[b].symbol = NewSym) =>
             DailyFileCatalogue[i].date < DailyFileCatalogue[j].date

WellFormed(order) == SelectSeq(order, LAMBDA id : DailyFileCatalogue[id].columns_ok)

\* The Bars the rows of a daily file would give.
BarsOfFile(id) ==
    {Bar(DailyFileCatalogue[id].date, DailyFileCatalogue[id].rows[k].open_price,
         DailyFileCatalogue[id].rows[k].close_price,
         DailyFileCatalogue[id].rows[k].ttl_trd_qnty) :
        k \in 1..Len(DailyFileCatalogue[id].rows)}

SeqRange(rows) == {rows[i] : i \in 1..Len(rows)}

\* C20: a daily file without the date column or the symbol column is
\* skipped as a whole.  Whatever run starts from a reachable state, over any
\* walk order: the ledgers it leaves are those of the same run over the
\* well-formed files alone (so the other files of the batch are ingested
\* as if the malformed file were absent), every row a ledger held before
\* the run is still in it unaltered, and no ledger holds a Bar made from a
\* row of a malformed file.
C20_MalformedSkipped ==
    \A order \in DailyFileOrders(source) :
       LET res == ProcessUpdatesResult(raw, adj, cadata, mapping, order, now, now).raw
       IN /\ RowsOf(res)
               = RowsOf(ProcessUpdatesResult(raw, adj, cadata, mapping,
                                             WellFormed(order), now, now).raw)
          /\ \A s \in MasterList :
                /\ SeqRange(raw[s].rows) \subseteq SeqRange(res[s].rows)
                /\ mapping = NoMapping =>
                      SubSeq(res[s].rows, 1, Len(raw[s].rows)) = raw[s].rows
                /\ \A id \in source :
                      ~DailyFileCatalogue[id].columns_ok =>
                         SeqRange(res[s].rows) \cap BarsOfFile(id) = {}

\* The last run had the malformed file of date 3 in its batch next to the
\* well-formed file of that date: the new symbol's Bar of date 3 is stored,
\* the old symbol's ledger is there and has no Bar of date 3.
C20_Witness ==
    /\ lastOp = "ingest"
    /\ mapping = NoMapping
    /\ {4, 5} \subseteq source
    /\ ~DailyFileCatalogue[5].columns_ok
    /\ raw[OldSym].ex
    /\ 3 \notin DatesOf(raw[OldSym].rows)
    /\ 3 \in DatesOf(raw[NewSym].rows)
    /\ raw[NewSym].mt = now

\* The dates of the stored daily files that give a Bar of a symbol: files
\* with the date and the symbol column, rows of the EQ series.
DatesFor(s, src) ==
    {DailyFileCatalogue[id].date : id \in
        {i \in src : /\ DailyFileCatalogue[i].columns_ok
                     /\ \E k \in 1..Len(DailyFileCatalogue[i].rows) :
                           LET r == DailyFileCatalogue[i].rows[k]
                           IN /\ r.symbol = s
                              /\ DailyFileCatalogue[i].has_series => r.series = "EQ"}}

\* C25: whatever run of process_updates starts from a reachable state, over
\* any walk order: a ledger that exists with its header but has a last line
\* with no date gets the sentinel as last date and is left as it is; a
\* missing ledger and an empty ledger file get 2000-01-01 and end with a
\* Bar for every date the stored files have for the symbol; and every
\* ledger whose last line is a record gets a Bar for every such date after
\* its last date.
C25_UnreadableLedger ==
    \A order \in DailyFileOrders(source) :
       LET res == ProcessUpdatesResult(raw, adj, cadata, mapping, order, now, now).raw
           last_dates == get_last_updated_dates(raw, MasterList)
       IN \A s \in MasterList :
             /\ (raw[s].ex /\ raw[s].damage = "bad_tail") =>
                   /\ last_dates[s] = SentinelDate
                   /\ res[s] = raw[s]
             /\ (~raw[s].ex \/ raw[s].damage = "empty") =>
                   /\ last_dates[s] = DefaultStart
                   /\ DatesOf(res[s].rows) = DatesFor(s, source)
             /\ (raw[s].ex /\ raw[s].damage \in {"none", "no_header"}) =>
                   /\ last_dates[s] = raw[s].rows[Len(raw[s].rows)].date
                   /\ DatesOf(res[s].rows)
                         = DatesOf(raw[s].rows)
                              \cup {d \in DatesFor(s, source) : d > last_dates[s]}

\* The old symbol's ledger has the Bar of date 1 and a last line with no
\* date; a later run has given the new symbol the Bar of date 2 from a file
\* that has a row of the old symbol too.
C25_Witness ==
    /\ lastOp = "ingest"
    /\ raw[OldSym].ex /\ raw[OldSym].damage = "bad_tail"
    /\ DatesOf(raw[OldSym].rows) = {1}
    /\ 3 \in source
    /\ 2 \in DatesFor(OldSym, source)
    /\ raw[NewSym].ex /\ raw[NewSym].mt > raw[OldSym].mt
    /\ 2 \in DatesOf(raw[NewSym].rows)

\* ------------------------------------------------ properties of the applier
\* The factors of one symbol in Calculated_Adjustments.csv.
FactorsOf(s) == SelectSeq(calc.rows, LAMBDA a : a.symbol = s)

\* The product of the price_multiplier of every factor whose ex_date is
\* strictly greater than date d.
EffectiveMultiplier(factors, d) ==
    LET F[k \in 0..Len(factors)] ==
            IF k = 0 THEN FOne
            ELSE LET prev == F[k - 1]
                 IN IF factors[k].ex_date > d
                    THEN FMul(prev, Frac(factors[k].price_multiplier, Millionth))
                    ELSE prev
    IN F[Len(factors)]

\* A price in paise against an exact value: equal, or the nearest paisa.
ExactPaise(a, x) == a * x[2] = x[1]
NearestPaise(a, x) ==
    /\ 2 * (a * x[2] - x[1]) <= x[2]
    /\ 2 * (x[1] - a * x[2]) <= x[2]

\* The symbols a run of the applier writes.
Processed(s) ==
    /\ AdjustmentFileReadable(calc)
    /\ raw[s].ex
    /\ should_process(raw[s], adj[s], calc)

PriceIs(exact, a, x) == IF exact THEN ExactPaise(a, x) ELSE NearestPaise(a, x)

\* Every ledger the run writes holds, for every raw Bar, a Bar of the same
\* date with the prices at the raw price times the multiplier (exactly, or
\* to the nearest paisa) and the traded quantity divided by the multiplier.
AdjustedAs(exact) ==
    \A s \in MasterList :
       Processed(s) =>
          /\ Len(adj'[s].rows) = Len(raw[s].rows)
          /\ \A i \in 1..Len(raw[s].rows) :
                LET r == raw[s].rows[i]
                    a == adj'[s].rows[i]
                    m == EffectiveMultiplier(FactorsOf(s), r.date)
                IN /\ a.date = r.date
                   /\ PriceIs(exact, a.open_price, FMul(<<r.open_price, 1>>, m))
                   /\ PriceIs(exact, a.close_price, FMul(<<r.close_price, 1>>, m))
                   /\ FEq(a.ttl_trd_qnty, FDiv(<<r.ttl_trd_qnty, 1>>, m))

\* C4 as stated: every adjusted Bar written by update_adjustment_prices has
\* prices exactly equal to the raw price times the product of the factors
\* with a later ex_date, and the quantity divided by that product.
C4_ExactProduct == [][UpdateAdjustmentPrices => AdjustedAs(TRUE)]_vars

\* C4 with the rounding the applier does: every adjusted Bar written by
\* update_adjustment_prices has prices equal to the raw price times the
\* product of the factors of the symbol with an ex_date strictly greater
\* than the Bar's date, rounded to 2 decimals, and the traded quantity
\* divided by that product; so with factors at ex_date1 < ex_date2 a Bar
\* before ex_date1 is scaled by m1*m2, a Bar in [ex_date1, ex_date2) by m2
\* and a Bar on or after ex_date2 equals the raw Bar.
C4_RoundedProduct == [][UpdateAdjustmentPrices => AdjustedAs(FALSE)]_vars

\* NEWCO has a split at date 2 and a bonus at date 3 and Bars at dates 1, 2
\* and 3; the applier has scaled the first by both, the last by none.
C4_Witness ==
    /\ lastOp = "adjust"
    /\ Len(FactorsOf(NewSym)) = 2
    /\ {FactorsOf(NewSym)[k].ex_date : k \in 1..2} = {2, 3}
    /\ DatesOf(raw[NewSym].rows) = {1, 2, 3}
    /\ Len(adj[NewSym].rows) = 3
    /\ 4 * adj[NewSym].rows[1].close_price = raw[NewSym].rows[1].close_price
    /\ adj[NewSym].rows[1].open_price # raw[NewSym].rows[1].open_price
    /\ adj[NewSym].rows[3].close_price = raw[NewSym].rows[3].close_price

\* C5: the applier is idempotent.  After a run, a second run (at once or
\* later) with the raw ledgers and the factors unchanged leaves every
\* adjusted ledger with the same rows.
C5_Idempotent ==
    lastOp = "adjust" =>
       \A t \in now..MaxClock : RowsOf(AdjustDir(raw, adj, calc, t)) = RowsOf(adj)

\* After a run that scaled NEWCO, the second run writes NEWCO again.
C5_Witness ==
    /\ lastOp = "adjust"
    /\ Processed(NewSym)
    /\ adj[NewSym].ex
    /\ FactorsOf(NewSym) # <<>>
    /\ Len(adj[NewSym].rows) >= 2
    /\ adj[NewSym].rows[1].close_price # raw[NewSym].rows[1].close_price

\* ---------------------------------------------- properties of the pipeline
\* C6: a Bar written to a raw ledger is never changed and never removed by
\* a later operation: every step keeps the Bars of every raw ledger, the
\* migration at the end of a run keeps the Bars the run's batch write has
\* just stored, and it leaves the old symbol's file as it is in each
\* directory it merges.
C6_Step ==
    /\ \A s \in MasterList :
          raw[s].ex => /\ raw'[s].ex
                       /\ Range(raw[s].rows) \subseteq Range(raw'[s].rows)
    /\ \A order \in DailyFileOrders(source) :
          LET written == IngestRaw(raw, order, now)
              merged == MigrateDir(written, RawColumns, mapping, now, 1)
          IN /\ \A s \in MasterList :
                   Range(written[s].rows) \subseteq Range(merged[s].rows)
             /\ \A i \in 1..Len(mapping) : merged[mapping[i][1]] = written[mapping[i][1]]
    /\ \A i \in 1..Len(mapping) :
          LET old_sym == mapping[i][1]
          IN /\ MigrateDir(adj, RawColumns, mapping, now, 1)[old_sym] = adj[old_sym]
             /\ MigrateDir(cadata, DisclosureColumns, mapping, now, 1)[old_sym]
                   = cadata[old_sym]

C6_BarsKept == [][C6_Step]_vars

\* With OLDCO renamed to NEWCO and both traded on date 1, the ledgers have
\* been merged, the events extracted and the prices adjusted; NEWCO still
\* holds its own Bar of date 1 and OLDCO its file.
C6_Witness ==
    /\ mapping = RenameMapping
    /\ lastOp = "adjust"
    /\ master.ex /\ calc.ex /\ adj[NewSym].ex
    /\ raw[OldSym].ex
    /\ Len(raw[NewSym].rows) = 3
    /\ raw[NewSym].rows[1].close_price = DailyFileCatalogue[1].rows[2].close_price
    /\ raw[OldSym].rows[1].close_price = DailyFileCatalogue[1].rows[1].close_price

\* C7 as stated: after a run of update_adjustment_prices with a factor file
\* in place, every symbol with a raw ledger has an adjusted ledger with the
\* same set of dates, and a symbol without factors has its raw prices.
C7_Mirror ==
    lastOp = "adjust" /\ calc.ex =>
       \A s \in MasterList :
          raw[s].ex =>
             /\ adj[s].ex
             /\ DatesOf(adj[s].rows) = DatesOf(raw[s].rows)
             /\ FactorsOf(s) = <<>> =>
                   \A i \in 1..Len(raw[s].rows) :
                      /\ adj[s].rows[i].open_price = raw[s].rows[i].open_price
                      /\ adj[s].rows[i].close_price = raw[s].rows[i].close_price

\* The events Corporate_Actions_Master.csv holds.
MasterEvents == IF master.ex THEN master.rows ELSE <<>>

\* C9 as stated: after a run of run_pipeline that the gatekeeper did not
\* skip, Corporate_Actions_Master.csv holds exactly the events parsed from
\* the disclosure files as they are now, also when there are none.
C9_Wholesale ==
    lastOp = "pipeline" => MasterEvents = SortEvents(ParseAll(cadata).events)

\* The events a run of run_pipeline parses from the disclosure files.
ParsedEvents == SortEvents(ParseAll(cadata).events)

\* The indices of the raw Bars of a symbol dated before ex_date.
BarsBefore(symbol, ex_date) ==
    {i \in 1..Len(raw[symbol].rows) : raw[symbol].rows[i].date < ex_date}

\* The factors of Calculated_Adjustments.csv, as written by the step, for
\* one event.
FactorsFor(e) ==
    {k \in 1..Len(calc'.rows) :
        /\ calc'.rows[k].symbol = e.symbol
        /\ calc'.rows[k].action_type = e.action_type
        /\ calc'.rows[k].ex_date = e.ex_date}

\* C13: every RIGHTS factor a run of run_pipeline writes is the factor of
\* a RIGHTS event computed with the close of the raw Bar of the greatest
\* date strictly before the event's ex_date; Bars on or after ex_date and
\* the adjusted ledger play no part.
C13_Step ==
    RunPipeline /\ lastOp' = "pipeline" =>
       \A k \in 1..Len(calc'.rows) :
          calc'.rows[k].action_type = "RIGHTS" =>
             \E n \in 1..Len(ParsedEvents) :
                LET e == ParsedEvents[n]
                    before == BarsBefore(e.symbol, e.ex_date)
                    rows == raw[e.symbol].rows
                IN /\ e.action_type = "RIGHTS"
                   /\ k \in FactorsFor(e)
                   /\ \E i \in before :
                         /\ \A j \in before : rows[j].date <= rows[i].date
                         /\ calc'.rows[k].price_multiplier
                               = Round6(calculate_rights(e.ratio, e.issue_price.val,
                                           Frac(rows[i].close_price, 100)).price_multiplier)

C13_CumRightsPrice == [][C13_Step]_vars

\* A run has written a RIGHTS factor for the old symbol while its raw
\* ledger holds a Bar on the ex_date with another close, and its adjusted
\* ledger holds a scaled close for the Bar before the ex_date.
C13_Witness ==
    /\ lastOp = "pipeline"
    /\ calc.mt = now
    /\ now > 1
    /\ \E k \in 1..Len(calc.rows) :
          /\ calc.rows[k].action_type = "RIGHTS"
          /\ calc.rows[k].symbol = OldSym
          /\ calc.rows[k].price_multiplier = 750000
          /\ \E i, j \in 1..Len(raw[OldSym].rows) :
                /\ raw[OldSym].rows[i].date < calc.rows[k].ex_date
                /\ raw[OldSym].rows[j].date = calc.rows[k].ex_date
                /\ raw[OldSym].rows[j].close_price # raw[OldSym].rows[i].close_price
                /\ adj[OldSym].ex
                /\ adj[OldSym].rows[i].close_price # raw[OldSym].rows[i].close_price

\* C14: in a run of run_pipeline, a RIGHTS event with no raw Bar before its
\* ex_date (or without a raw ledger) gets no factor, the factor file is
\* still written, and every other event gets its factor.
C14_Step ==
    RunPipeline /\ lastOp' = "pipeline" =>
       /\ calc'.ex /\ calc'.mt = now
       /\ \A n \in 1..Len(ParsedEvents) :
             LET e == ParsedEvents[n]
                 gap == /\ e.action_type = "RIGHTS"
                        /\ (~raw[e.symbol].ex \/ BarsBefore(e.symbol, e.ex_date) = {})
             IN IF gap THEN FactorsFor(e) = {}
                ELSE \E k \in FactorsFor(e) :
                        calc'.rows[k].price_multiplier
                           = Round6(CalcRes(raw, e).price_multiplier)
       /\ Len(calc'.rows) <= Len(ParsedEvents)

C14_PriceGap == [][C14_Step]_vars

\* A run has written factors of other events while the RIGHTS event of the
\* old symbol, which has no raw ledger, got none.
C14_Witness ==
    /\ lastOp = "pipeline"
    /\ calc.mt = now
    /\ ~raw[OldSym].ex
    /\ \E n \in 1..Len(MasterEvents) :
          MasterEvents[n].symbol = OldSym /\ MasterEvents[n].action_type = "RIGHTS"
    /\ \A k \in 1..Len(calc.rows) : calc.rows[k].action_type # "RIGHTS"
    /\ \E k \in 1..Len(calc.rows) : calc.rows[k].symbol = NewSym
    /\ \E k \in 1..Len(calc.rows) :
          calc.rows[k].symbol = OldSym /\ calc.rows[k].action_type = "DEMERGER"

\* Calculated_Adjustments.csv as run_pipeline writes it for the same events
\* without the DEMERGER ones.
WithoutDemergers(calcF) ==
    WrittenFile(SelectSeq(calcF.rows, LAMBDA f : f.action_type # "DEMERGER"), calcF.mt)

\* C15 as stated: every DEMERGER factor is 1.0, and the adjusted ledgers
\* update_adjustment_prices builds are the same Bars with the DEMERGER
\* events as without them.
C15_DemergerFrame ==
    lastOp = "pipeline" /\ calc.ex =>
       /\ \A k \in 1..Len(calc.rows) :
             calc.rows[k].action_type = "DEMERGER" =>
                calc.rows[k].price_multiplier = Millionth
       /\ RowsOf(AdjustDir(raw, adj, WithoutDemergers(calc), now))
             = RowsOf(AdjustDir(raw, adj, calc, now))

\* C16 as stated: run_pipeline skips only when the master file is strictly
\* newer than every disclosure file and the factor file is strictly newer
\* than the master file; update_adjustment_prices skips a symbol only when
\* its adjusted ledger is strictly newer than its raw ledger and than the
\* factor file.
C16_Step ==
    /\ lastOp' = "pipeline_skipped" /\ RunPipeline =>
          /\ master.ex /\ calc.ex
          /\ \A s \in MasterList : cadata[s].ex => cadata[s].mt < master.mt
          /\ master.mt < calc.mt
    /\ lastOp' = "adjust" /\ UpdateAdjustmentPrices /\ AdjustmentFileReadable(calc) =>
          \A s \in MasterList :
             raw[s].ex /\ ~should_process(raw[s], adj[s], calc) =>
                /\ adj[s].ex
                /\ raw[s].mt < adj[s].mt
                /\ calc.mt < adj[s].mt

C16_StrictlyNewer == [][C16_Step]_vars

\* C17 as stated, for the skips with every disclosure file strictly older
\* than the master file: when the gatekeeper of run_pipeline has skipped,
\* the events and the factors on disk are those a forced run would write
\* from the inputs as they are now.
C17_SkipIsSafe ==
    (/\ lastOp = "pipeline_skipped"
     /\ \A s \in MasterList : cadata[s].ex => cadata[s].mt < master.mt) =>
       /\ PipelineResult(raw, cadata, master, calc, now).master.rows = master.rows
       /\ PipelineResult(raw, cadata, master, calc, now).calc.rows = calc.rows

\* ------------------------------------------------ the factor engine alone
\* The events and the factors that one symbol's disclosure file gives.
EventsOf(sym) == SortEvents(parse_corporate_actions_file(sym, cadata[sym]).events)
FactorsOfEvents(sym) == CalcAll(raw, EventsOf(sym))

NoStepFailed == \A i \in StepNames : run.step_results[i] # "FAILED"

\* C23 as stated: a run of main in which no step failed has executed the
\* steps in their listed order, the downloader and the corporate-action
\* step among them, and has ended by logging WORKFLOW COMPLETED and
\* printing the execution summary.
C23_Completes ==
    (run.pc = "ended" /\ NoStepFailed) =>
       /\ run.completed
       /\ run.summary
       /\ \A i, j \in 1..Len(run.executed) : i < j => run.executed[i] < run.executed[j]
       /\ {1, 3} \subseteq SeqRange(run.executed)

C26_FailedStepStops ==
    \A i \in StepNames :
       run.step_results[i] = "FAILED" =>
          /\ run.ret \notin {0, 10, 20}
          /\ run.pc = "ended"
          /\ run.exit = "1"
          /\ run.summary
          /\ ~run.completed
          /\ \A j \in StepNames \ {i} : run.step_results[j] = "SKIPPED"
          /\ \A k \in 1..Len(run.executed) : run.executed[k] <= i

\* The downloader script ended with code 1: the run is over, step 1 is
\* the one executed step.
C26_Witness ==
    /\ lastOp = "step_failed"
    /\ run.step_results[1] = "FAILED"
    /\ run.ret = 1
    /\ run.executed = <<1>>
    /\ run.exit = "1"

\* C27: Calculated_Adjustments.csv never holds two factors of the same
\* symbol, ex-date and action type.
C27_NoDuplicateFactors ==
    \A i, j \in 1..Len(calc.rows) :
        (/\ calc.rows[i].symbol = calc.rows[j].symbol
         /\ calc.rows[i].ex_date = calc.rows[j].ex_date
         /\ calc.rows[i].action_type = calc.rows[j].action_type) => i = j

\* C29: in each of the three directories, and with the symbol mapping
\* that is configured, the migration run a second time over an unchanged
\* old file leaves every file with the rows the first run left.
C29_MigrationIdempotent ==
    /\ RowsOf(MigrateDir(MigrateDir(raw, RawColumns, mapping, now, 1),
                         RawColumns, mapping, now, 1))
          = RowsOf(MigrateDir(raw, RawColumns, mapping, now, 1))
    /\ RowsOf(MigrateDir(MigrateDir(adj, RawColumns, mapping, now, 1),
                         RawColumns, mapping, now, 1))
          = RowsOf(MigrateDir(adj, RawColumns, mapping, now, 1))
    /\ RowsOf(MigrateDir(MigrateDir(cadata, DisclosureColumns, mapping, now, 1),
                         DisclosureColumns, mapping, now, 1))
          = RowsOf(MigrateDir(cadata, DisclosureColumns, mapping, now, 1))

\* C30: a run of the catch-up job during which the exchange answers every
\* request leaves a daily file for every date the exchange has data for,
\* from the first stored date to the day of the run.
C30_GapsRefilled ==
    source # {} =>
        \A d \in ExchangeDates :
            (SetMin(StoredDates(source)) < d /\ d <= run.today) =>
                d \in StoredDates(daily_job(source, run.today, Dates))

\* C22: when a run of the cloud workflow has appended Bars to a symbol's
\* raw ledger, the adjusted ledger of that symbol holds every date of the
\* raw ledger when the run comes to the RSI step.
C22_AdjustedFollowsRaw ==
    (run.pc = "step6" /\ lastOp = "cloud_step") =>
        \A s \in run.appended :
            adj[s].ex /\ DatesOf(raw[s].rows) \subseteq DatesOf(adj[s].rows)

MaxRatioTerm == 14

RatioString(a, b) == IntToChars(a) \o <<":">> \o IntToChars(b)

RatioInputs ==
    {RatioString(a, b) : a, b \in 0..MaxRatioTerm}
    \cup { <<"1", ":", "2", ".", "5">>, <<"0", ".", "5", ":", "1">>,
           <<"1", ":", "2", ":", "3">>, <<"1">>, <<"1", ":">>, <<":", "2">>,
           <<"a", ":", "b">>, <<>> }

PriceInputs ==
    { [issue |-> <<530, 1>>, market |-> <<735, 1>>],
      [issue |-> <<50, 1>>, market |-> <<100, 1>>],
      [issue |-> <<2515, 10>>, market |-> <<1999, 20>>] }

InitEngine ==
    /\ InitFiles
    /\ mapping = NoMapping
    /\ ratioIn \in RatioInputs
    /\ priceIn \in PriceInputs
    /\ engineOut = EmptyResult
    /\ parseIn = <<>>
    /\ parseOut = NoParse

CalcSplit ==
    /\ engineOut' = calculate_split(ratioIn)
    /\ lastOp' = "calculate_split"
    /\ UNCHANGED <<ratioIn, priceIn, parseIn, parseOut, run>>
    /\ UNCHANGED fileVars

CalcBonus ==
    /\ engineOut' = calculate_bonus(ratioIn)
    /\ lastOp' = "calculate_bonus"
    /\ UNCHANGED <<ratioIn, priceIn, parseIn, parseOut, run>>
    /\ UNCHANGED fileVars

CalcRights ==
    /\ engineOut' = calculate_rights(ratioIn, priceIn.issue, priceIn.market)
    /\ lastOp' = "calculate_rights"
    /\ UNCHANGED <<ratioIn, priceIn, parseIn, parseOut, run>>
    /\ UNCHANGED fileVars

CalcDemerger ==
    /\ engineOut' = calculate_demerger(ratioIn)
    /\ lastOp' = "calculate_demerger"
    /\ UNCHANGED <<ratioIn, priceIn, parseIn, parseOut, run>>
    /\ UNCHANGED fileVars

NextEngine == CalcSplit \/ CalcBonus \/ CalcRights \/ CalcDemerger

SpecEngine == InitEngine /\ [][NextEngine]_vars

\* The engine over ratios with very long terms, as the digits of a
\* disclosure's subject can spell them.
BigRatioTerm == 2000001

ExtremeRatioInputs == {RatioString(a, b) : a, b \in {1, 2, 10, BigRatioTerm}}

ExtremePriceInputs ==
    { [issue |-> <<50, 1>>, market |-> <<100, 1>>],
      [issue |-> <<1, 1>>, market |-> <<100, 1>>] }

InitExtreme ==
    /\ InitFiles
    /\ mapping = NoMapping
    /\ ratioIn \in ExtremeRatioInputs
    /\ priceIn \in ExtremePriceInputs
    /\ engineOut = EmptyResult
    /\ parseIn = <<>>
    /\ parseOut = NoParse

SpecExtreme == InitExtreme /\ [][NextEngine]_vars

\* C28: the price_multiplier of every result of the engine is above zero
\* once run_pipeline has rounded it to 6 decimals (a multiplier above 1
\* stays above 1 and is not rounded here).
C28_PositiveMultiplier ==
    engineOut.ok =>
        \/ FLess(FOne, engineOut.price_multiplier)
        \/ Round6(engineOut.price_multiplier) > 0

\* C10: for a split ratio "A:B" with A > 0 and B > 0, calculate_split gives
\* price_multiplier A / B and qty_multiplier B / A, whose product is 1;
\* "1:10" gives 0.1 and 10.0, "1:2" gives the price_multiplier 0.5.
C10_Split ==
    lastOp = "calculate_split" =>
       /\ \A A, B \in 1..MaxRatioTerm :
             ratioIn = RatioString(A, B) =>
                /\ engineOut.ok
                /\ engineOut.action = "SPLIT"
                /\ FEq(engineOut.price_multiplier, <<A, B>>)
                /\ FEq(engineOut.qty_multiplier, <<B, A>>)
                /\ FEq(FMul(engineOut.price_multiplier, engineOut.qty_multiplier), FOne)
       /\ ratioIn = <<"1", ":", "1", "0">> =>
             /\ FEq(engineOut.price_multiplier, <<1, 10>>)
             /\ FEq(engineOut.qty_multiplier, <<10, 1>>)
       /\ ratioIn = <<"1", ":", "2">> => FEq(engineOut.price_multiplier, <<5, 10>>)
       /\ ratioIn = <<"1", ":", "2", ".", "5">> =>
             /\ FEq(engineOut.price_multiplier, <<2, 5>>)
             /\ FEq(engineOut.qty_multiplier, <<5, 2>>)
       /\ ratioIn = <<"0", ".", "5", ":", "1">> =>
             /\ FEq(engineOut.price_multiplier, <<1, 2>>)
             /\ FEq(engineOut.qty_multiplier, <<2, 1>>)

\* calculate_split has been called with "1:10" and has answered.
C10_Witness ==
    /\ lastOp = "calculate_split"
    /\ ratioIn = RatioString(1, 10)
    /\ engineOut.ok
    /\ engineOut.qty_multiplier = <<10, 1>>

\* C11: for a bonus ratio "A:B" (A bonus shares for B held) with A > 0 and
\* B > 0, calculate_bonus gives price_multiplier B / (A + B) and
\* qty_multiplier (A + B) / B; the price multiplier lies strictly between 0
\* and 1; "1:1" gives 0.5.
C11_Bonus ==
    lastOp = "calculate_bonus" =>
       /\ \A A, B \in 1..MaxRatioTerm :
             ratioIn = RatioString(A, B) =>
                /\ engineOut.ok
                /\ engineOut.action = "BONUS"
                /\ FEq(engineOut.price_multiplier, <<B, A + B>>)
                /\ FEq(engineOut.qty_multiplier, <<A + B, B>>)
       /\ engineOut.ok =>
             /\ FLess(<<0, 1>>, engineOut.price_multiplier)
             /\ FLess(engineOut.price_multiplier, FOne)
       /\ ratioIn = <<"1", ":", "1">> => FEq(engineOut.price_multiplier, <<5, 10>>)
       /\ ratioIn = <<"1", ":", "2", ".", "5">> =>
             /\ FEq(engineOut.price_multiplier, <<5, 7>>)
             /\ FEq(engineOut.qty_multiplier, <<7, 5>>)

\* calculate_bonus has been called with "1:2", a ratio whose two terms
\* differ, and has answered.
C11_Witness ==
    /\ lastOp = "calculate_bonus"
    /\ ratioIn = RatioString(1, 2)
    /\ engineOut.ok
    /\ engineOut.price_multiplier = <<2, 3>>

\* C12: for a rights ratio "A:B" (A rights shares for B held), issue price R
\* and cum-rights market price P > 0, calculate_rights gives
\* TERP = (B*P + A*R) / (A + B) and price_multiplier = TERP / P; for "1:14",
\* R = 530, P = 735 the multiplier is within 1e-4 of 0.9814.
C12_Rights ==
    lastOp = "calculate_rights" =>
       /\ \A A, B \in 1..MaxRatioTerm :
             ratioIn = RatioString(A, B) =>
                /\ engineOut.ok
                /\ engineOut.action = "RIGHTS"
                /\ engineOut.terp
                      = FDiv(FAdd(FMul(<<B, 1>>, priceIn.market),
                                  FMul(<<A, 1>>, priceIn.issue)), <<A + B, 1>>)
                /\ engineOut.price_multiplier = FDiv(engineOut.terp, priceIn.market)
       /\ (/\ ratioIn = RatioString(1, 14)
           /\ priceIn = [issue |-> <<530, 1>>, market |-> <<735, 1>>]) =>
             /\ FLess(FAdd(<<9814, 10000>>, <<-1, 10000>>), engineOut.price_multiplier)
             /\ FLess(engineOut.price_multiplier, FAdd(<<9814, 10000>>, <<1, 10000>>))

\* calculate_rights has been called with "1:14", R = 530 and P = 735 and has
\* answered with the TERP 10820 / 15.
C12_Witness ==
    /\ lastOp = "calculate_rights"
    /\ ratioIn = RatioString(1, 14)
    /\ priceIn = [issue |-> <<530, 1>>, market |-> <<735, 1>>]
    /\ engineOut.ok
    /\ engineOut.terp = <<2164, 3>>

\* ---------------------------------------------------- the extractor alone
MaxRows == 2

FaceValueTexts == { <<"1", "0">>, <<"-">>, <<"N", "A">> }

DisclosureRecords ==
    {Disclosure(t, 1, fv) : t \in SubjectTexts, fv \in FaceValueTexts}

DisclosureFiles ==
    UNION {[1..n -> DisclosureRecords] : n \in 1..MaxRows}

InitParse ==
    /\ InitFiles
    /\ mapping = NoMapping
    /\ ratioIn = <<>>
    /\ priceIn = [issue |-> FOne, market |-> FOne]
    /\ engineOut = EmptyResult
    /\ parseIn \in DisclosureFiles
    /\ parseOut = NoParse

ParseFile(symbol) ==
    /\ parseOut' = parse_corporate_actions_file(symbol, WrittenFile(parseIn, now))
    /\ lastOp' = "parse"
    /\ UNCHANGED <<ratioIn, priceIn, engineOut, parseIn, run>>
    /\ UNCHANGED fileVars

NextParse == \E symbol \in {OldSym} : ParseFile(symbol)

SpecParse == InitParse /\ [][NextParse]_vars

\* The first pattern, in the order BONUS, SPLIT, RIGHTS, DEMERGER, that a
\* subject matches.
FirstPattern(subject) ==
    IF MatchBonus(subject).found THEN "BONUS"
    ELSE IF MatchSplit(subject).found THEN "SPLIT"
    ELSE IF MatchRights(subject).found THEN "RIGHTS"
    ELSE IF ContainsDemerger(subject) THEN "DEMERGER"
    ELSE "NONE"

\* C8 as stated: for each disclosure record the parser emits at most one
\* event; an event it emits is of the first pattern, in the order BONUS,
\* SPLIT, RIGHTS, DEMERGER, that the subject matches; a subject matching no
\* pattern gives no event.
C8_FirstMatchWins ==
    lastOp = "parse" /\ parseOut.ok =>
       /\ Len(parseOut.events) <= Len(parseIn)
       /\ \A i \in 1..Len(parseIn) :
             LET events == ParseDisclosure(OldSym, parseIn[i])
                 first == FirstPattern(SubjectTokens(parseIn[i].subject))
             IN /\ Len(events) <= 1
                /\ events # <<>> => events[1].action_type = first
                /\ first = "NONE" => events = <<>>
       /\ Len(parseIn) = 1 /\ parseOut.events # <<>> =>
             parseOut.events[1].action_type
                = FirstPattern(SubjectTokens(parseIn[1].subject))

====
